---- MODULE Spec2Model ----
(***************************************************************************)
(* Authentication / authorization core of the PQRS backend.               *)
(*                                                                         *)
(*   app/core/security.py      token service (python-jose) and hashing    *)
(*   app/core/dependencies.py  identity resolver and access guards        *)
(*   app/services/*.py         login, refresh, registration, users        *)
(*   app/routers/users.py      the /users endpoints                       *)
(*                                                                         *)
(* Time is counted in minutes.  Python values that may be of several      *)
(* types (JSON claim values, Optional arguments) are tagged records.      *)
(***************************************************************************)
EXTENDS Integers, FiniteSets, Sequences, TLC

VARIABLES now, nticks, held, users, roles, res, pqrs, history, calls

vars == <<now, nticks, held, users, roles, res, pqrs, history, calls>>

-----------------------------------------------------------------------------
(* Bounds of the exploration.                                              *)

\* number of clock steps explored
MaxTicks == 2

-----------------------------------------------------------------------------
(* Python values.                                                          *)

NoneV == [ty |-> "none"]

IntV(n) == [ty |-> "int", n |-> n]

StrV(s) == [ty |-> "str", s |-> s]

ListV(l) == [ty |-> "list", l |-> l]

DictV(d) == [ty |-> "dict", d |-> d]

\* timedelta(minutes = m)
TD(m) == [ty |-> "timedelta", minutes |-> m]

\* bool(x) for the values an `if x:` is applied to: None and timedelta(0) are falsy
Truthy(x) == x # NoneV /\ x # TD(0)

\* dict.get(k): None when the key is missing
Get(d, k) == IF k \in DOMAIN d THEN d[k] ELSE NoneV

\* the elements of a list
Elems(l) == {l[i] : i \in 1..Len(l)}

EmptyDict == [k \in {} |-> NoneV]

\* outcomes of a call
Ret(v) == [kind |-> "return", value |-> v]

Raise(e) == [kind |-> "raise", exc |-> e]

\* an HTTPException(status_code, detail)
HTTPException(code, detail) == [kind |-> "raise", exc |-> "HTTPException", status_code |-> code, detail |-> detail]

-----------------------------------------------------------------------------
(* Configuration (app.core.config.settings).                               *)

SECRET_KEY == "secret-key"

ALGORITHM == "HS256"

ACCESS_TOKEN_EXPIRE_MINUTES == 30

REFRESH_TOKEN_EXPIRE_DAYS == 7

\* timedelta(days = d) in minutes
timedelta_days(d) == TD(d * 24 * 60)

-----------------------------------------------------------------------------
(* python-jose: jwt.encode / jwt.decode.                                   *)

\* exception classes of jose.exceptions and their base classes
ExcBases(e) ==
    CASE e = "ExpiredSignatureError" -> {"ExpiredSignatureError", "JWTError", "JOSEError", "Exception"}
      [] e = "JWTClaimsError" -> {"JWTClaimsError", "JWTError", "JOSEError", "Exception"}
      [] e = "JWTError" -> {"JWTError", "JOSEError", "Exception"}
      [] OTHER -> {e, "Exception"}

\* the HMAC over header and payload: it matches only the key and the payload it was made with
Sign(claims, key) == [key |-> key, over |-> claims]

\* jwt.encode(claims, key, algorithm): header.payload.signature
jwt_encode(claims, key, algorithm) ==
    [ty |-> "jwt", alg |-> algorithm, payload |-> claims, sig |-> Sign(claims, key)]

\* jwt.decode with options verify_exp = False
jwt_decode_ignores_exp(token, key, algorithms, utcnow) ==
    IF token.ty # "jwt" THEN Raise("JWTError")
    ELSE IF token.alg \notin algorithms THEN Raise("JWTError")
    ELSE IF token.sig # Sign(token.payload, key) THEN Raise("JWTError")
    ELSE IF "sub" \in DOMAIN token.payload /\ token.payload["sub"].ty # "str"
      THEN Raise("JWTClaimsError")
    ELSE Ret(DictV(token.payload))

\* jwt.decode(token, key, algorithms) at time utcnow: the claims, or a JWTError.
\* In this order: the three segments are parsed, the header's alg must be one of algorithms,
\* the signature must match key and payload, exp must be an integer not before utcnow
\* (no leeway), and sub, when present, must be a string.
jwt_decode(token, key, algorithms, utcnow) ==
    IF token.ty # "jwt" THEN Raise("JWTError")
    ELSE IF token.alg \notin algorithms THEN Raise("JWTError")
    ELSE IF token.sig # Sign(token.payload, key) THEN Raise("JWTError")
    ELSE LET claims == token.payload IN
         IF "exp" \in DOMAIN claims /\ claims["exp"].ty # "int"
           THEN Raise("JWTClaimsError")
         ELSE IF "exp" \in DOMAIN claims /\ claims["exp"].n < utcnow
           THEN Raise("ExpiredSignatureError")
         ELSE IF "sub" \in DOMAIN claims /\ claims["sub"].ty # "str"
           THEN Raise("JWTClaimsError")
         ELSE Ret(DictV(claims))

-----------------------------------------------------------------------------
(* app/core/security.py                                                    *)

\* to_encode = data.copy(); to_encode.update({"exp": expire, "type": kind})
WithExpType(data, expire, kind) ==
    [k \in DOMAIN data \cup {"exp", "type"} |->
        IF k = "exp" THEN IntV(expire)
        ELSE IF k = "type" THEN StrV(kind)
        ELSE data[k]]

\* create_access_token with to_encode = {"exp": expire, "type": "access", **data}: the
\* caller's entries win
create_access_token_keeps_caller_claims(data, expires_delta, utcnow) ==
    LET expire == IF Truthy(expires_delta)
                    THEN utcnow + expires_delta.minutes
                    ELSE utcnow + ACCESS_TOKEN_EXPIRE_MINUTES
        to_encode == [k \in DOMAIN data \cup {"exp", "type"} |->
                         IF k \in DOMAIN data THEN data[k]
                         ELSE IF k = "exp" THEN IntV(expire)
                         ELSE StrV("access")]
    IN jwt_encode(to_encode, SECRET_KEY, ALGORITHM)

create_access_token(data, expires_delta, utcnow) ==
    LET expire == IF Truthy(expires_delta)
                    THEN utcnow + expires_delta.minutes
                    ELSE utcnow + ACCESS_TOKEN_EXPIRE_MINUTES
    IN jwt_encode(WithExpType(data, expire, "access"), SECRET_KEY, ALGORITHM)

create_refresh_token(data, expires_delta, utcnow) ==
    LET expire == IF Truthy(expires_delta)
                    THEN utcnow + expires_delta.minutes
                    ELSE utcnow + timedelta_days(REFRESH_TOKEN_EXPIRE_DAYS).minutes
    IN jwt_encode(WithExpType(data, expire, "refresh"), SECRET_KEY, ALGORITHM)

\* verify_token without the comparison of the type claim
verify_token_ignores_type(token, token_type, utcnow) ==
    LET r == jwt_decode(token, SECRET_KEY, {ALGORITHM}, utcnow) IN
    IF r.kind = "raise"
      THEN IF "JWTError" \in ExcBases(r.exc) THEN Ret(NoneV) ELSE r
    ELSE r

\* verify_token with `except ExpiredSignatureError` in place of `except JWTError`
verify_token_catches_expired_only(token, token_type, utcnow) ==
    LET r == jwt_decode(token, SECRET_KEY, {ALGORITHM}, utcnow) IN
    IF r.kind = "raise"
      THEN IF "ExpiredSignatureError" \in ExcBases(r.exc) THEN Ret(NoneV) ELSE r
    ELSE IF Get(r.value.d, "type") # StrV(token_type) THEN Ret(NoneV)
    ELSE r

verify_token(token, token_type, utcnow) ==
    LET r == jwt_decode(token, SECRET_KEY, {ALGORITHM}, utcnow) IN
    IF r.kind = "raise"
      THEN IF "JWTError" \in ExcBases(r.exc) THEN Ret(NoneV) ELSE r
    ELSE IF Get(r.value.d, "type") # StrV(token_type) THEN Ret(NoneV)
    ELSE r

\* create_token_pair handing all of user_data to create_refresh_token
create_token_pair_full_refresh(user_data, utcnow) ==
    [access_token |-> create_access_token(user_data, NoneV, utcnow),
     refresh_token |-> create_refresh_token(user_data, NoneV, utcnow),
     token_type |-> StrV("bearer")]

create_token_pair(user_data, utcnow) ==
    [access_token |-> create_access_token(user_data, NoneV, utcnow),
     refresh_token |-> create_refresh_token([sub |-> Get(user_data, "sub")], NoneV, utcnow),
     token_type |-> StrV("bearer")]

-----------------------------------------------------------------------------
(* Stored data: the User and Role tables.                                  *)

PermissionNames == {"crear_pqrs", "ver_pqrs", "asignar_pqrs"}

\* the Role rows with their permissions, as loaded by selectinload(Role.permissions)
SeedRoles ==
    [i \in {1, 2, 3} |->
        [id |-> i,
         name |-> IF i = 1 THEN "Administrador" ELSE IF i = 2 THEN "Gestor" ELSE "Usuario",
         permissions |-> IF i = 1 THEN PermissionNames
                         ELSE IF i = 2 THEN {"ver_pqrs", "asignar_pqrs"}
                         ELSE {"crear_pqrs", "ver_pqrs"}]]

\* a str is the sequence of its characters where the code iterates over it: "Admin123!"
Admin123 == <<"A", "d", "m", "i", "n", "1", "2", "3", "!">>

\* "Alice123!"
Alice123 == <<"A", "l", "i", "c", "e", "1", "2", "3", "!">>

\* the part of a password bcrypt reads: its first 72 bytes (passwords here are ASCII)
bcrypt_secret(password) ==
    IF Len(password) > 72 THEN SubSeq(password, 1, 72) ELSE password

\* a bcrypt hash string: the salt is embedded in it
bcrypt(password, salt) == [ty |-> "bcrypt", salt |-> salt, pw |-> bcrypt_secret(password)]

\* the User rows present before the first request
SeedUsers ==
    [i \in {1, 2} |->
        [id |-> i,
         username |-> IF i = 1 THEN "admin" ELSE "alice",
         email |-> IF i = 1 THEN "admin@pqrs.co" ELSE "alice@pqrs.co",
         full_name |-> IF i = 1 THEN "Admin" ELSE "Alice",
         password_hash |-> bcrypt(IF i = 1 THEN Admin123 ELSE Alice123, "s0"),
         is_active |-> TRUE,
         role_id |-> IF i = 1 THEN 1 ELSE 3,
         last_login |-> NoneV]]

-----------------------------------------------------------------------------
(* app/repositories/user_repository.py                                     *)

\* a User row with its role and the role's permissions loaded
LoadUser(us, rs, i) ==
    [id |-> us[i].id, username |-> us[i].username, email |-> us[i].email,
     full_name |-> us[i].full_name, password_hash |-> us[i].password_hash,
     is_active |-> us[i].is_active, role_id |-> us[i].role_id,
     last_login |-> us[i].last_login, role |-> rs[us[i].role_id]]

\* select(User).where(User.id == user_id) ... scalar_one_or_none()
get_by_id(us, rs, user_id) ==
    IF \E i \in DOMAIN us : IntV(i) = user_id
      THEN LoadUser(us, rs, CHOOSE i \in DOMAIN us : IntV(i) = user_id)
      ELSE NoneV

get_by_username(us, rs, username) ==
    IF \E i \in DOMAIN us : us[i].username = username
      THEN LoadUser(us, rs, CHOOSE i \in DOMAIN us : us[i].username = username)
      ELSE NoneV

get_by_email(us, rs, email) ==
    IF \E i \in DOMAIN us : us[i].email = email
      THEN LoadUser(us, rs, CHOOSE i \in DOMAIN us : us[i].email = email)
      ELSE NoneV

\* exists_by_username finding no row
exists_by_username_never(us, username) == FALSE

exists_by_username(us, username) ==
    Cardinality({i \in DOMAIN us : us[i].username = username}) > 0

exists_by_email(us, email) == Cardinality({i \in DOMAIN us : us[i].email = email}) > 0

\* the id the database gives a new row: the one after the largest stored
NextId(us) == IF DOMAIN us = {} THEN 1 ELSE 1 + CHOOSE i \in DOMAIN us : \A j \in DOMAIN us : j <= i

\* db.add(user), flush, refresh
create(us, user) == [i \in DOMAIN us \cup {user.id} |-> IF i = user.id THEN user ELSE us[i]]

\* an update of last_login without its where clause
update_last_login_every_row(us, user_id, utcnow) ==
    [i \in DOMAIN us |-> [us[i] EXCEPT !.last_login = IntV(utcnow)]]

\* update(User).where(User.id == user_id).values(last_login = utcnow)
update_last_login(us, user_id, utcnow) ==
    [i \in DOMAIN us |-> IF i = user_id THEN [us[i] EXCEPT !.last_login = IntV(utcnow)] ELSE us[i]]

\* an update of is_active that writes nothing
set_active_writes_nothing(us, user_id, flag) == us

\* update(User).where(User.id == user_id).values(is_active = flag)
set_active(us, user_id, flag) ==
    [i \in DOMAIN us |-> IF i = user_id THEN [us[i] EXCEPT !.is_active = flag] ELSE us[i]]

\* update(User).where(User.id == user_id).values(password_hash = new_password_hash)
update_password(us, user_id, new_password_hash) ==
    [i \in DOMAIN us |->
        IF i = user_id THEN [us[i] EXCEPT !.password_hash = new_password_hash] ELSE us[i]]

\* delete(User).where(User.id == user_id)
delete(us, user_id) == [i \in DOMAIN us \ {user_id} |-> us[i]]

-----------------------------------------------------------------------------
(* app/core/security.py: password hashing (passlib, bcrypt).               *)

hash_password(password, salt) == bcrypt(password, salt)

verify_password(plain_password, hashed_password) ==
    IF hashed_password.ty = "bcrypt"
      THEN Ret(hashed_password.pw = bcrypt_secret(plain_password))
      ELSE Raise("UnknownHashError")

-----------------------------------------------------------------------------
(* app/core/security.py: the password policy.                              *)

\* the characters c of the inputs with c.isupper()
UpperCase ==
    {"A", "B", "C", "D", "E", "F", "G", "H", "I", "J", "K", "L", "M", "N", "O", "P", "Q", "R",
     "S", "T", "U", "V", "W", "X", "Y", "Z"}

\* the characters c of the inputs with c.islower()
LowerCase ==
    {"a", "b", "c", "d", "e", "f", "g", "h", "i", "j", "k", "l", "m", "n", "o", "p", "q", "r",
     "s", "t", "u", "v", "w", "x", "y", "z"}

\* the characters c of the inputs with c.isdigit()
DigitChars == {"0", "1", "2", "3", "4", "5", "6", "7", "8", "9"}

isupper(c) == c \in UpperCase

islower(c) == c \in LowerCase

isdigit(c) == c \in DigitChars

special_chars ==
    <<"!", "@", "#", "$", "%", "^", "&", "*", "(", ")", ",", ".", "?", "\"", ":", "{", "}",
      "|", "<", ">">>

\* validate_password_strength testing for a lowercase letter before an uppercase one
validate_password_strength_lowercase_first(password) ==
    IF Len(password) < 8
      THEN <<FALSE, StrV("La contraseña debe tener al menos 8 caracteres")>>
    ELSE IF ~\E i \in 1..Len(password) : islower(password[i])
      THEN <<FALSE, StrV("La contraseña debe contener al menos una minúscula")>>
    ELSE IF ~\E i \in 1..Len(password) : isupper(password[i])
      THEN <<FALSE, StrV("La contraseña debe contener al menos una mayúscula")>>
    ELSE IF ~\E i \in 1..Len(password) : isdigit(password[i])
      THEN <<FALSE, StrV("La contraseña debe contener al menos un número")>>
    ELSE IF ~\E i \in 1..Len(password) : password[i] \in Elems(special_chars)
      THEN <<FALSE, StrV("La contraseña debe contener al menos un carácter especial")>>
    ELSE <<TRUE, NoneV>>

\* validate_password_strength: the tuple (es_válida, mensaje_de_error)
validate_password_strength(password) ==
    IF Len(password) < 8
      THEN <<FALSE, StrV("La contraseña debe tener al menos 8 caracteres")>>
    ELSE IF ~\E i \in 1..Len(password) : isupper(password[i])
      THEN <<FALSE, StrV("La contraseña debe contener al menos una mayúscula")>>
    ELSE IF ~\E i \in 1..Len(password) : islower(password[i])
      THEN <<FALSE, StrV("La contraseña debe contener al menos una minúscula")>>
    ELSE IF ~\E i \in 1..Len(password) : isdigit(password[i])
      THEN <<FALSE, StrV("La contraseña debe contener al menos un número")>>
    ELSE IF ~\E i \in 1..Len(password) : password[i] \in Elems(special_chars)
      THEN <<FALSE, StrV("La contraseña debe contener al menos un carácter especial")>>
    ELSE <<TRUE, NoneV>>

-----------------------------------------------------------------------------
(* app/core/dependencies.py                                                *)

\* the names bound in the module namespace of dependencies.py (its imports and definitions)
DependenciesGlobals ==
    {"List", "Optional", "Depends", "HTTPException", "status", "HTTPBearer",
     "HTTPAuthorizationCredentials", "AsyncSession", "select", "get_async_db",
     "verify_token", "User", "Role", "Permission", "security", "get_current_user",
     "get_current_active_user", "RoleChecker", "PermissionChecker", "require_admin",
     "require_admin_or_manager", "require_staff", "PaginationParams",
     "get_pagination_params", "SearchParams", "get_search_params"}

credentials_exception == HTTPException(401, <<"No se pudo validar las credenciales">>)

get_current_user(token, utcnow, us, rs) ==
    LET payload == verify_token(token, "access", utcnow) IN
    IF payload.kind = "raise" THEN payload
    ELSE IF payload.value = NoneV THEN credentials_exception
    ELSE LET user_id == Get(payload.value.d, "sub") IN
         IF user_id = NoneV THEN credentials_exception
         \* select(User).options(selectinload(...)): the name is looked up when the line runs
         ELSE IF "selectinload" \notin DependenciesGlobals THEN Raise("NameError")
         ELSE LET user == get_by_id(us, rs, user_id) IN
              IF user = NoneV THEN credentials_exception
              ELSE Ret(user)

\* get_current_active_user without the is_active test
get_current_active_user_skips_check(current_user) == Ret(current_user)

get_current_active_user(current_user) ==
    IF ~current_user.is_active
      THEN HTTPException(403, <<"Usuario inactivo">>)
      ELSE Ret(current_user)

\* RoleChecker comparing with the first allowed role only
RoleChecker_first_only(allowed_roles, current_user) ==
    IF allowed_roles = <<>> \/ current_user.role.name # allowed_roles[1]
      THEN HTTPException(403, <<"Requiere uno de estos roles: ">> \o allowed_roles)
      ELSE Ret(current_user)

\* RoleChecker(allowed_roles).__call__(current_user)
RoleChecker(allowed_roles, current_user) ==
    IF current_user.role.name \notin Elems(allowed_roles)
      THEN HTTPException(403, <<"Requiere uno de estos roles: ">> \o allowed_roles)
      ELSE Ret(current_user)

\* PermissionChecker passing as soon as one required permission is held
PermissionChecker_any(required_permissions, current_user) ==
    LET user_permissions == current_user.role.permissions
        missing == {i \in 1..Len(required_permissions) :
                        required_permissions[i] \notin user_permissions}
    IN IF missing # {} /\ Cardinality(missing) = Len(required_permissions)
         THEN HTTPException(403, <<"Permiso requerido: ",
                  required_permissions[CHOOSE i \in missing : \A j \in missing : i <= j]>>)
         ELSE Ret(current_user)

\* PermissionChecker(required_permissions).__call__(current_user)
PermissionChecker(required_permissions, current_user) ==
    LET user_permissions == current_user.role.permissions
        missing == {i \in 1..Len(required_permissions) :
                        required_permissions[i] \notin user_permissions}
    IN IF missing # {}
         THEN HTTPException(403, <<"Permiso requerido: ",
                  required_permissions[CHOOSE i \in missing : \A j \in missing : i <= j]>>)
         ELSE Ret(current_user)

\* require_admin letting the role "Usuario" through as well
require_admin_or_usuario == <<"Administrador", "Usuario">>

require_admin == <<"Administrador">>

require_admin_or_manager == <<"Administrador", "Gestor">>

require_staff == <<"Administrador", "Gestor", "Supervisor">>

\* Depends(get_current_user) of get_current_active_user: an exception of the dependency
\* ends the request, its result is the argument
Depends_get_current_active_user(dep) ==
    IF dep.kind = "raise" THEN dep ELSE get_current_active_user(dep.value)

\* Depends(get_current_active_user) of RoleChecker.__call__
Depends_RoleChecker(allowed_roles, dep) ==
    LET active == Depends_get_current_active_user(dep) IN
    IF active.kind = "raise" THEN active ELSE RoleChecker(allowed_roles, active.value)

\* Depends(get_current_active_user) of PermissionChecker.__call__
Depends_PermissionChecker(required_permissions, dep) ==
    LET active == Depends_get_current_active_user(dep) IN
    IF active.kind = "raise" THEN active ELSE PermissionChecker(required_permissions, active.value)

-----------------------------------------------------------------------------
(* app/services/auth_service.py                                            *)

\* the claims login and refresh put in the access token
user_data_of(user) ==
    [sub |-> IntV(user.id),
     username |-> StrV(user.username),
     email |-> StrV(user.email),
     full_name |-> StrV(user.full_name),
     role |-> StrV(user.role.name),
     role_id |-> IntV(user.role.id),
     permissions |-> ListV(user.role.permissions)]

\* AuthService.login, the lookup: by username, then by email
login_lookup(username, us, rs) ==
    LET user == get_by_username(us, rs, username) IN
    IF user = NoneV THEN get_by_email(us, rs, username) ELSE user

\* AuthService.login without the is_active test
login_skips_active_check(username, password, utcnow, us, rs) ==
    LET user == login_lookup(username, us, rs) IN
    IF user = NoneV
      THEN HTTPException(401, <<"Credenciales incorrectas">>)
    ELSE LET ok == verify_password(password, user.password_hash) IN
         IF ok.kind = "raise" THEN ok
         ELSE IF ~ok.value THEN HTTPException(401, <<"Credenciales incorrectas">>)
         ELSE Ret(DictV(create_token_pair(user_data_of(user), utcnow)))

\* AuthService.login with the is_active test made before the password is verified
login_active_check_first(username, password, utcnow, us, rs) ==
    LET user == login_lookup(username, us, rs) IN
    IF user = NoneV
      THEN HTTPException(401, <<"Credenciales incorrectas">>)
    ELSE IF ~user.is_active
      THEN HTTPException(403, <<"Usuario inactivo. Contacte al administrador.">>)
    ELSE LET ok == verify_password(password, user.password_hash) IN
         IF ok.kind = "raise" THEN ok
         ELSE IF ~ok.value THEN HTTPException(401, <<"Credenciales incorrectas">>)
         ELSE Ret(DictV(create_token_pair(user_data_of(user), utcnow)))

\* AuthService.login: the failure raised, or the token pair returned
login(username, password, utcnow, us, rs) ==
    LET user == login_lookup(username, us, rs) IN
    IF user = NoneV
      THEN HTTPException(401, <<"Credenciales incorrectas">>)
    ELSE LET ok == verify_password(password, user.password_hash) IN
         IF ok.kind = "raise" THEN ok
         ELSE IF ~ok.value THEN HTTPException(401, <<"Credenciales incorrectas">>)
         ELSE IF ~user.is_active
           THEN HTTPException(403, <<"Usuario inactivo. Contacte al administrador.">>)
         ELSE Ret(DictV(create_token_pair(user_data_of(user), utcnow)))

\* AuthService.refresh_access_token: the failure raised, or the token pair returned
refresh_access_token(refresh_token, utcnow, us, rs) ==
    LET payload == verify_token(refresh_token, "refresh", utcnow) IN
    IF payload.kind = "raise" THEN payload
    ELSE IF payload.value = NoneV
      THEN HTTPException(401, <<"Refresh token inválido o expirado">>)
    ELSE LET user == get_by_id(us, rs, Get(payload.value.d, "sub")) IN
         IF user = NoneV \/ ~user.is_active
           THEN HTTPException(401, <<"Usuario no encontrado o inactivo">>)
           ELSE Ret(DictV(create_token_pair(user_data_of(user), utcnow)))

\* AuthService.register without the password policy
register_skips_policy(us, rs, username, email, password, full_name, salt) ==
    IF exists_by_username(us, username)
      THEN HTTPException(400, <<"El username ya está en uso">>)
    ELSE IF exists_by_email(us, email)
      THEN HTTPException(400, <<"El email ya está registrado">>)
    ELSE IF ~\E r \in DOMAIN rs : rs[r].name = "Usuario"
      THEN HTTPException(500, <<"Error en configuración del sistema: rol por defecto no existe">>)
    ELSE LET default_role == rs[CHOOSE r \in DOMAIN rs : rs[r].name = "Usuario"] IN
         Ret([id |-> NextId(us), username |-> username, email |-> email,
              full_name |-> full_name, password_hash |-> hash_password(password, salt),
              is_active |-> TRUE, role_id |-> default_role.id, last_login |-> NoneV])

\* AuthService.register: the failure raised, or the row handed to the repository
register(us, rs, username, email, password, full_name, salt) ==
    LET valid == validate_password_strength(password) IN
    IF ~valid[1] THEN HTTPException(400, <<valid[2].s>>)
    ELSE IF exists_by_username(us, username)
      THEN HTTPException(400, <<"El username ya está en uso">>)
    ELSE IF exists_by_email(us, email)
      THEN HTTPException(400, <<"El email ya está registrado">>)
    ELSE IF ~\E r \in DOMAIN rs : rs[r].name = "Usuario"
      THEN HTTPException(500, <<"Error en configuración del sistema: rol por defecto no existe">>)
    ELSE LET default_role == rs[CHOOSE r \in DOMAIN rs : rs[r].name = "Usuario"] IN
         Ret([id |-> NextId(us), username |-> username, email |-> email,
              full_name |-> full_name, password_hash |-> hash_password(password, salt),
              is_active |-> TRUE, role_id |-> default_role.id, last_login |-> NoneV])

\* the register calls under way: none
RegisterCalls == {1, 2}

NoCalls == [c \in RegisterCalls |-> [pc |-> "idle"]]

\* the user row register builds at auth_service.py:238
new_user(call, rs, id) ==
    [id |-> id, username |-> call.username, email |-> call.email,
     full_name |-> call.full_name, password_hash |-> hash_password(call.password, call.salt),
     is_active |-> TRUE,
     role_id |-> rs[CHOOSE r \in DOMAIN rs : rs[r].name = "Usuario"].id,
     last_login |-> NoneV]

\* AuthService.register up to its first await: the policy is checked without the store
register_begin(username, email, password, full_name, salt) ==
    LET valid == validate_password_strength(password)
        call == [username |-> username, email |-> email, password |-> password,
                 full_name |-> full_name, salt |-> salt]
    IN  IF ~valid[1]
          THEN [pc |-> "done", call |-> call, out |-> HTTPException(400, <<valid[2].s>>)]
          ELSE [pc |-> "exists_by_username", call |-> call, out |-> NoneV]

\* the commit of a new row by the database: the User table is described as rows that are
\* looked up and inserted, with no constraint of its own
commit_user(us, user) == create(us, user)

\* AuthService.register from one await to the next, on the store as it is when the await
\* returns: exists_by_username, exists_by_email, the role lookup, create and commit
register_resume(c, us, rs) ==
    IF c.pc = "exists_by_username"
      THEN IF exists_by_username(us, c.call.username)
             THEN [c EXCEPT !.pc = "done",
                            !.out = HTTPException(400, <<"El username ya está en uso">>)]
             ELSE [c EXCEPT !.pc = "exists_by_email"]
    ELSE IF c.pc = "exists_by_email"
      THEN IF exists_by_email(us, c.call.email)
             THEN [c EXCEPT !.pc = "done",
                            !.out = HTTPException(400, <<"El email ya está registrado">>)]
             ELSE [c EXCEPT !.pc = "select_role"]
    ELSE IF c.pc = "select_role"
      THEN IF ~\E r \in DOMAIN rs : rs[r].name = "Usuario"
             THEN [c EXCEPT !.pc = "done",
                            !.out = HTTPException(500, <<"Error en configuración del sistema: rol por defecto no existe">>)]
             ELSE [c EXCEPT !.pc = "create"]
    ELSE [c EXCEPT !.pc = "done", !.out = Ret(new_user(c.call, rs, NextId(us)))]

\* AuthService.change_password: the answer and the user rows committed
change_password(us, rs, user_id, current_password, new_password, salt) ==
    LET user == get_by_id(us, rs, IntV(user_id)) IN
    IF user = NoneV
      THEN [out |-> HTTPException(404, <<"Usuario no encontrado">>), users |-> us]
    ELSE LET ok == verify_password(current_password, user.password_hash)
             valid == validate_password_strength(new_password)
         IN  IF ok.kind = "raise" THEN [out |-> ok, users |-> us]
             ELSE IF ~ok.value
               THEN [out |-> HTTPException(400, <<"Contraseña actual incorrecta">>), users |-> us]
             ELSE IF ~valid[1] THEN [out |-> HTTPException(400, <<valid[2].s>>), users |-> us]
             ELSE [out |-> Ret(user_id \in DOMAIN us),
                   users |-> update_password(us, user_id, hash_password(new_password, salt))]

\* AuthService.reset_password: the answer and the user rows committed
auth_reset_password(us, rs, user_id, new_password, salt) ==
    LET user == get_by_id(us, rs, IntV(user_id))
        valid == validate_password_strength(new_password)
    IN  IF user = NoneV
          THEN [out |-> HTTPException(404, <<"Usuario no encontrado">>), users |-> us]
        ELSE IF ~valid[1] THEN [out |-> HTTPException(400, <<valid[2].s>>), users |-> us]
        ELSE [out |-> Ret(user_id \in DOMAIN us),
              users |-> update_password(us, user_id, hash_password(new_password, salt))]

-----------------------------------------------------------------------------
(* app/services/user_service.py                                            *)

\* UserService.get_user_by_id
get_user_by_id(us, rs, user_id) ==
    LET user == get_by_id(us, rs, IntV(user_id)) IN
    IF user = NoneV
      THEN HTTPException(404, <<"Usuario con ID ", user_id, " no encontrado">>)
      ELSE Ret(user)

\* UserService.update_user: the failure raised, or the row as committed
update_user(us, rs, user_id, email, full_name, role_id) ==
    LET found == get_user_by_id(us, rs, user_id) IN
    IF found.kind = "raise" THEN found
    ELSE LET user == us[user_id]
             newEmail == email # NoneV /\ email # StrV("") /\ email.s # user.email
         IN IF newEmail /\ exists_by_email(us, email.s)
              THEN HTTPException(400, <<"El email ya está registrado">>)
            ELSE IF role_id # NoneV /\ role_id.n \notin DOMAIN rs
              THEN HTTPException(404, <<"Rol con ID ", role_id.n, " no encontrado">>)
            ELSE Ret([user EXCEPT
                       !.email = IF newEmail THEN email.s ELSE @,
                       !.full_name = IF full_name # NoneV THEN full_name.s ELSE @,
                       !.role_id = IF role_id # NoneV THEN role_id.n ELSE @])

\* UserService.activate_user (flag TRUE) and deactivate_user (flag FALSE): the failure raised
\* or the user returned, and the rows as committed
set_user_active(us, rs, user_id, flag) ==
    IF user_id \notin DOMAIN us
      THEN [out |-> HTTPException(404, <<"Usuario con ID ", user_id, " no encontrado">>),
            users |-> us]
      ELSE [out |-> get_user_by_id(set_active(us, user_id, flag), rs, user_id),
            users |-> set_active(us, user_id, flag)]

\* UserService.reset_password
reset_password(us, rs, user_id, new_password, salt) ==
    LET found == get_user_by_id(us, rs, user_id)
        valid == validate_password_strength(new_password)
    IN IF found.kind = "raise" THEN [out |-> found, users |-> us]
       ELSE IF ~valid[1] THEN [out |-> HTTPException(400, <<valid[2].s>>), users |-> us]
       ELSE [out |-> Ret(TRUE),
             users |-> update_password(us, user_id, hash_password(new_password, salt))]

-----------------------------------------------------------------------------
(* app/routers/users.py: the endpoint bodies, run with the current_user of the guard. *)

BoolV(b) == [ty |-> "bool", b |-> b]

\* a UserUpdate body with no field set
NoUpdate == [email |-> NoneV, full_name |-> NoneV, role_id |-> NoneV, is_active |-> NoneV]

\* GET /users
users_list_users(current_user, us, rs) ==
    [out |-> Ret(ListV({LoadUser(us, rs, i) : i \in DOMAIN us})), users |-> us]

\* GET /users/statistics
users_get_statistics(current_user, us, rs) ==
    [out |-> Ret(DictV([total_users |-> IntV(Cardinality(DOMAIN us)),
                        active_users |-> IntV(Cardinality({i \in DOMAIN us : us[i].is_active})),
                        inactive_users |->
                            IntV(Cardinality({i \in DOMAIN us : ~us[i].is_active}))])),
     users |-> us]

\* GET /users/{user_id}
users_get_user_by_id(current_user, user_id, us, rs) ==
    [out |-> get_user_by_id(us, rs, user_id), users |-> us]

\* PUT /users/{user_id}
users_update_user(current_user, user_id, user_data, us, rs) ==
    LET updated == update_user(us, rs, user_id, user_data.email, user_data.full_name,
                               user_data.role_id)
    IN IF updated.kind = "raise" THEN [out |-> updated, users |-> us]
       ELSE LET us1 == [i \in DOMAIN us |-> IF i = user_id THEN updated.value ELSE us[i]] IN
            IF user_data.is_active = NoneV THEN [out |-> updated, users |-> us1]
            ELSE IF user_data.is_active.b /\ ~updated.value.is_active
              THEN set_user_active(us1, rs, user_id, TRUE)
            ELSE IF ~user_data.is_active.b /\ updated.value.is_active
              THEN set_user_active(us1, rs, user_id, FALSE)
            ELSE [out |-> updated, users |-> us1]

\* DELETE /users/{user_id}
users_delete_user(current_user, user_id, us, rs) ==
    IF user_id = current_user.id
      THEN [out |-> HTTPException(400, <<"No puedes eliminar tu propio usuario">>), users |-> us]
      ELSE LET found == get_user_by_id(us, rs, user_id) IN
           IF found.kind = "raise" THEN [out |-> found, users |-> us]
           ELSE [out |-> Ret(DictV([message |-> StrV("Usuario eliminado exitosamente"),
                                    user_id |-> IntV(user_id), success |-> BoolV(TRUE)])),
                 users |-> delete(us, user_id)]

\* PUT /users/{user_id}/activate
users_activate_user(current_user, user_id, us, rs) == set_user_active(us, rs, user_id, TRUE)

\* PUT /users/{user_id}/deactivate
users_deactivate_user(current_user, user_id, us, rs) ==
    IF user_id = current_user.id
      THEN [out |-> HTTPException(400, <<"No puedes desactivar tu propio usuario">>),
            users |-> us]
      ELSE set_user_active(us, rs, user_id, FALSE)

\* POST /users/{user_id}/reset-password
users_reset_password(current_user, user_id, new_password, salt, us, rs) ==
    LET done == reset_password(us, rs, user_id, new_password, salt) IN
    IF done.out.kind = "raise" THEN done
    ELSE [out |-> Ret(DictV([message |-> StrV("Contraseña reseteada exitosamente"),
                             user_id |-> IntV(user_id), success |-> BoolV(TRUE)])),
          users |-> done.users]

-----------------------------------------------------------------------------
(* Inputs of the token service.                                            *)

\* largest explicit expires_delta, in minutes
MaxDelta == 1

Deltas == {NoneV} \cup {TD(m) : m \in 0..MaxDelta}

\* claim dictionaries handed to the issuing functions
ClaimInputs ==
    {EmptyDict,
     [sub |-> StrV("1"), type |-> StrV("refresh"), exp |-> IntV(0)],
     user_data_of(LoadUser(SeedUsers, SeedRoles, 1))}

TokenTypes == {"access", "refresh"}

\* longest required_permissions list
MaxRequired == 2

AllowedRoleInputs == {require_admin, require_admin_or_manager, require_staff, <<"Usuario">>}

RequiredPermissionInputs ==
    UNION {[1..n -> PermissionNames \cup {"eliminar_usuario"}] : n \in 0..MaxRequired}

\* user ids named in requests: the stored ones and one that was never stored
UserIdInputs == {1, 2, 3}

\* role ids named in requests: the stored ones and one that does not exist
RoleIdInputs == {1, 2, 3, 4}

LoginNames == {"admin", "alice@pqrs.co", "nobody"}

PasswordInputs == {Admin123, Alice123}

Slots == {"access_token", "refresh_token"}

HeldTokens == {held[s] : s \in {x \in Slots : held[x] # NoneV}}

\* what a client can make of a token without the key
Forgeries(t) ==
    {jwt_encode(t.payload, "attacker-key", ALGORITHM),
     [t EXCEPT !.payload = WithExpType(t.payload, t.payload["exp"].n + ACCESS_TOKEN_EXPIRE_MINUTES,
                                       IF t.payload["type"] = StrV("access") THEN "refresh" ELSE "access")],
     [t EXCEPT !.alg = "none"]}

\* the strings a client can present
Presentable == HeldTokens \cup UNION {Forgeries(t) : t \in HeldTokens} \cup {StrV("not-a-jwt")}

-----------------------------------------------------------------------------
(* app/services/pqrs_service.py, app/repositories/pqrs_repository.py       *)

\* the rows of pqrs_status
SeedStatuses ==
    {[id |-> 1, name |-> "Recibida", order |-> 1],
     [id |-> 2, name |-> "En Proceso", order |-> 2]}

\* str(n) of a non-negative integer, digit by digit
RECURSIVE str(_)
str(n) ==
    LET digit == <<"0", "1", "2", "3", "4", "5", "6", "7", "8", "9">>[(n % 10) + 1] IN
    IF n < 10 THEN <<digit>> ELSE str(n \div 10) \o <<digit>>

\* s.zfill(width)
RECURSIVE zfill(_, _)
zfill(s, width) == IF Len(s) >= width THEN s ELSE zfill(<<"0">> \o s, width)

\* datetime.utcnow().strftime("%Y%m%d"): the calendar day of the minute count
strftime_Ymd(utcnow) == utcnow \div (24 * 60)

\* PQRSRepository.get_by_id
pqrs_repo_get_by_id(ps, pqrs_id) ==
    IF \E p \in ps : p.id = pqrs_id THEN CHOOSE p \in ps : p.id = pqrs_id ELSE NoneV

\* the id the database gives the next PQRS row: ids are never handed out twice
NextPqrsId(ps, hs) ==
    LET seen == {p.id : p \in ps} \cup {hs[i].pqrs_id : i \in 1..Len(hs)} IN
    IF seen = {} THEN 1 ELSE (CHOOSE m \in seen : \A n \in seen : n <= m) + 1

\* PQRSRepository.delete
pqrs_repo_delete(ps, pqrs_id) ==
    [rowcount |-> Cardinality({p \in ps : p.id = pqrs_id}), pqrs |-> {p \in ps : p.id # pqrs_id}]

\* PQRSRepository.change_status that writes the status and no history record
pqrs_repo_change_status_no_history(ps, hs, pqrs_id, new_status_id, changed_by, comment) ==
    LET row == pqrs_repo_get_by_id(ps, pqrs_id) IN
    IF row = NoneV THEN [success |-> FALSE, pqrs |-> ps, history |-> hs]
    ELSE [success |-> TRUE,
          pqrs |-> (ps \ {row}) \cup {[row EXCEPT !.status_id = new_status_id]},
          history |-> hs]

\* PQRSRepository.change_status
pqrs_repo_change_status(ps, hs, pqrs_id, new_status_id, changed_by, comment) ==
    LET row == pqrs_repo_get_by_id(ps, pqrs_id) IN
    IF row = NoneV THEN [success |-> FALSE, pqrs |-> ps, history |-> hs]
    ELSE LET old_status_id == row.status_id IN
         [success |-> TRUE,
          pqrs |-> (ps \ {row}) \cup {[row EXCEPT !.status_id = new_status_id]},
          history |-> Append(hs, [pqrs_id |-> pqrs_id, old_status_id |-> IntV(old_status_id),
                                  new_status_id |-> IntV(new_status_id),
                                  changed_by |-> changed_by, comment |-> comment])]

\* PQRSService._generate_unique_code: PQRS-YYYYMMDD-XXXX as its three parts
generate_unique_code(ps, utcnow) ==
    LET today == strftime_Ymd(utcnow)
        prefix == <<"PQRS", today>>
        \* radicado_number LIKE 'PQRS-YYYYMMDD%'
        count == Cardinality({p \in ps : SubSeq(p.radicado_number, 1, 2) = prefix})
        radicado_number == prefix \o <<zfill(str(count + 1), 4)>>
        existing == {p \in ps : p.radicado_number = radicado_number}
    IN  IF Cardinality(existing) > 1 THEN Raise("MultipleResultsFound")
        ELSE IF existing # {} THEN Ret(prefix \o <<zfill(str(count + 2), 4)>>)
        ELSE Ret(radicado_number)

\* PQRSService.get_pqrs_by_id
get_pqrs_by_id(ps, pqrs_id) ==
    LET row == pqrs_repo_get_by_id(ps, pqrs_id) IN
    IF row = NoneV
      THEN HTTPException(404, <<"PQRS con ID ", str(pqrs_id), " no encontrada">>)
      ELSE Ret(row)

\* PQRSService.create_pqrs: the answer, the PQRS rows and the history rows committed
create_pqrs(ps, hs, ss, utcnow, created_by) ==
    LET initial == {s \in ss : s.name = "Recibida" /\ s.order = 1}
        code == generate_unique_code(ps, utcnow)
    IN  IF initial = {}
          THEN [out |-> HTTPException(500, <<"Estado inicial 'Recibida' no encontrado. Inicializa la BD.">>),
                pqrs |-> ps, history |-> hs]
        ELSE IF code.kind = "raise" THEN [out |-> code, pqrs |-> ps, history |-> hs]
        ELSE LET initial_status == CHOOSE s \in initial : TRUE
                 created_pqrs == [id |-> NextPqrsId(ps, hs), radicado_number |-> code.value,
                                  status_id |-> initial_status.id, user_id |-> created_by]
             IN  [out |-> Ret(created_pqrs),
                  pqrs |-> ps \cup {created_pqrs},
                  history |-> Append(hs, [pqrs_id |-> created_pqrs.id, old_status_id |-> NoneV,
                                          new_status_id |-> IntV(initial_status.id),
                                          changed_by |-> created_by, comment |-> "PQRS creada"])]

\* PQRSService.delete_pqrs
delete_pqrs(ps, hs, pqrs_id, deleted_by) ==
    LET found == get_pqrs_by_id(ps, pqrs_id) IN
    IF found.kind = "raise" THEN [out |-> found, pqrs |-> ps, history |-> hs]
    ELSE LET deleted == pqrs_repo_delete(ps, pqrs_id) IN
         [out |-> Ret(BoolV(deleted.rowcount > 0)),
          pqrs |-> deleted.pqrs,
          history |-> Append(hs, [pqrs_id |-> pqrs_id, old_status_id |-> NoneV,
                                  new_status_id |-> NoneV,
                                  changed_by |-> deleted_by, comment |-> "PQRS eliminada"])]

\* PQRSService.change_status
change_status(ps, hs, ss, pqrs_id, new_status_id, changed_by, comment) ==
    LET found == get_pqrs_by_id(ps, pqrs_id) IN
    IF found.kind = "raise" THEN [out |-> found, pqrs |-> ps, history |-> hs]
    ELSE IF ~\E s \in ss : s.id = new_status_id
      THEN [out |-> HTTPException(404, <<"Estado con ID ", str(new_status_id), " no encontrado">>),
            pqrs |-> ps, history |-> hs]
    ELSE LET changed == pqrs_repo_change_status(ps, hs, pqrs_id, new_status_id, changed_by, comment) IN
         IF ~changed.success
           THEN [out |-> HTTPException(500, <<"Error al cambiar el estado">>),
                 pqrs |-> ps, history |-> hs]
           ELSE [out |-> get_pqrs_by_id(changed.pqrs, pqrs_id),
                 pqrs |-> changed.pqrs, history |-> changed.history]

-----------------------------------------------------------------------------
(* Actions.                                                                *)

Init ==
    /\ now = 0
    /\ nticks = 0
    /\ held = [s \in Slots |-> NoneV]
    /\ users = SeedUsers
    /\ roles = SeedRoles
    /\ pqrs = {}
    /\ history = <<>>
    /\ calls = NoCalls
    /\ res = [op |-> "init"]

\* the clock advances
Tick(d) ==
    /\ nticks < MaxTicks
    /\ now' = now + d
    /\ nticks' = nticks + 1
    /\ UNCHANGED <<held, users, roles, res, pqrs, history, calls>>

CreateAccessToken(data, expires_delta) ==
    LET tok == create_access_token(data, expires_delta, now) IN
    /\ held' = [held EXCEPT !["access_token"] = tok]
    /\ res' = [op |-> "create_access_token", data |-> data, expires_delta |-> expires_delta,
               at |-> now, out |-> Ret(tok)]
    /\ UNCHANGED <<now, nticks, users, roles, pqrs, history, calls>>

CreateRefreshToken(data, expires_delta) ==
    LET tok == create_refresh_token(data, expires_delta, now) IN
    /\ held' = [held EXCEPT !["refresh_token"] = tok]
    /\ res' = [op |-> "create_refresh_token", data |-> data, expires_delta |-> expires_delta,
               at |-> now, out |-> Ret(tok)]
    /\ UNCHANGED <<now, nticks, users, roles, pqrs, history, calls>>

CreateTokenPair(user_data) ==
    LET pair == create_token_pair(user_data, now) IN
    /\ held' = [s \in Slots |-> pair[s]]
    /\ res' = [op |-> "create_token_pair", data |-> user_data, at |-> now, out |-> Ret(DictV(pair))]
    /\ UNCHANGED <<now, nticks, users, roles, pqrs, history, calls>>

VerifyToken(token, token_type) ==
    /\ res' = [op |-> "verify_token", token |-> token, token_type |-> token_type,
               at |-> now, out |-> verify_token(token, token_type, now)]
    /\ UNCHANGED <<now, nticks, held, users, roles, pqrs, history, calls>>

\* a request to an endpoint guarded by get_current_user alone (GET /auth/me)
GetCurrentUser(token) ==
    /\ res' = [op |-> "get_current_user", token |-> token, at |-> now,
               out |-> get_current_user(token, now, users, roles)]
    /\ UNCHANGED <<now, nticks, held, users, roles, pqrs, history, calls>>

\* a request to an endpoint guarded by Depends(get_current_active_user)
ActiveRequest(token) ==
    /\ res' = [op |-> "active_request", token |-> token, at |-> now,
               out |-> Depends_get_current_active_user(get_current_user(token, now, users, roles))]
    /\ UNCHANGED <<now, nticks, held, users, roles, pqrs, history, calls>>

\* a request to an endpoint guarded by Depends(RoleChecker(allowed_roles))
RoleRequest(token, allowed_roles) ==
    /\ res' = [op |-> "role_request", token |-> token, allowed_roles |-> allowed_roles, at |-> now,
               out |-> Depends_RoleChecker(allowed_roles, get_current_user(token, now, users, roles))]
    /\ UNCHANGED <<now, nticks, held, users, roles, pqrs, history, calls>>

\* a request to an endpoint guarded by Depends(PermissionChecker(required_permissions))
PermissionRequest(token, required_permissions) ==
    /\ res' = [op |-> "permission_request", token |-> token,
               required_permissions |-> required_permissions, at |-> now,
               out |-> Depends_PermissionChecker(required_permissions,
                                                 get_current_user(token, now, users, roles))]
    /\ UNCHANGED <<now, nticks, held, users, roles, pqrs, history, calls>>

\* get_current_active_user on a user resolved from the store
CallGetCurrentActiveUser(i) ==
    LET current_user == get_by_id(users, roles, IntV(i)) IN
    /\ res' = [op |-> "get_current_active_user", current_user |-> current_user,
               out |-> Depends_get_current_active_user(Ret(current_user))]
    /\ UNCHANGED <<now, nticks, held, users, roles, pqrs, history, calls>>

\* RoleChecker(allowed_roles) on a user resolved from the store
CallRoleChecker(allowed_roles, i) ==
    LET current_user == get_by_id(users, roles, IntV(i)) IN
    /\ res' = [op |-> "RoleChecker", allowed_roles |-> allowed_roles, current_user |-> current_user,
               out |-> Depends_RoleChecker(allowed_roles, Ret(current_user))]
    /\ UNCHANGED <<now, nticks, held, users, roles, pqrs, history, calls>>

\* PermissionChecker(required_permissions) on a user resolved from the store
CallPermissionChecker(required_permissions, i) ==
    LET current_user == get_by_id(users, roles, IntV(i)) IN
    /\ res' = [op |-> "PermissionChecker", required_permissions |-> required_permissions,
               current_user |-> current_user,
               out |-> Depends_PermissionChecker(required_permissions, Ret(current_user))]
    /\ UNCHANGED <<now, nticks, held, users, roles, pqrs, history, calls>>

\* AuthService.login
Login(username, password) ==
    LET out == login(username, password, now, users, roles)
        user == login_lookup(username, users, roles)
    IN
    /\ res' = [op |-> "login", username |-> username, password |-> password, at |-> now,
               user |-> user, out |-> out]
    /\ IF out.kind = "return"
         THEN /\ users' = update_last_login(users, user.id, now)
              /\ held' = [s \in Slots |-> out.value.d[s]]
         ELSE UNCHANGED <<users, held>>
    /\ UNCHANGED <<now, nticks, roles, pqrs, history, calls>>

\* POST /auth/refresh
Refresh(refresh_token) ==
    LET out == refresh_access_token(refresh_token, now, users, roles) IN
    /\ res' = [op |-> "refresh", token |-> refresh_token, at |-> now, out |-> out]
    /\ held' = IF out.kind = "return" THEN [s \in Slots |-> out.value.d[s]] ELSE held
    /\ UNCHANGED <<now, nticks, users, roles, pqrs, history, calls>>

\* POST /auth/logout: guarded by get_current_user, it changes nothing
Logout(token) ==
    LET current_user == get_current_user(token, now, users, roles) IN
    /\ res' = [op |-> "logout", token |-> token, at |-> now,
               out |-> IF current_user.kind = "raise" THEN current_user
                       ELSE Ret(DictV([message |-> StrV("Sesión cerrada exitosamente"),
                                       success |-> TRUE]))]
    /\ UNCHANGED <<now, nticks, held, users, roles, pqrs, history, calls>>

\* UserService.update_user
UpdateUser(user_id, email, full_name, role_id) ==
    LET out == update_user(users, roles, user_id, email, full_name, role_id) IN
    /\ res' = [op |-> "update_user", user_id |-> user_id, email |-> email,
               full_name |-> full_name, role_id |-> role_id, out |-> out]
    /\ users' = IF out.kind = "return"
                  THEN [i \in DOMAIN users |-> IF i = user_id THEN out.value ELSE users[i]]
                  ELSE users
    /\ UNCHANGED <<now, nticks, held, roles, pqrs, history, calls>>

\* UserService.delete_user
DeleteUser(user_id) ==
    LET found == get_user_by_id(users, roles, user_id) IN
    /\ res' = [op |-> "delete_user", user_id |-> user_id,
               out |-> IF found.kind = "raise" THEN found ELSE Ret(TRUE)]
    /\ users' = IF found.kind = "raise" THEN users ELSE delete(users, user_id)
    /\ UNCHANGED <<now, nticks, held, roles, pqrs, history, calls>>

\* UserService.activate_user (flag TRUE) and UserService.deactivate_user (flag FALSE)
SetActive(user_id, flag) ==
    LET success == user_id \in DOMAIN users
        us2 == set_active(users, user_id, flag)
    IN
    /\ res' = [op |-> IF flag THEN "activate_user" ELSE "deactivate_user", user_id |-> user_id,
               out |-> IF ~success
                         THEN HTTPException(404, <<"Usuario con ID ", user_id, " no encontrado">>)
                         ELSE get_user_by_id(us2, roles, user_id)]
    /\ users' = us2
    /\ UNCHANGED <<now, nticks, held, roles, pqrs, history, calls>>

\* a minute passes, or the lifetime of an access token
TickAny == \E d \in {1, ACCESS_TOKEN_EXPIRE_MINUTES} : Tick(d)

\* a minute passes
TickMinute == Tick(1)

CreateAccessTokenAny == \E data \in ClaimInputs, e \in Deltas : CreateAccessToken(data, e)

CreateRefreshTokenAny == \E data \in ClaimInputs, e \in Deltas : CreateRefreshToken(data, e)

CreateTokenPairAny == \E data \in ClaimInputs : CreateTokenPair(data)

VerifyTokenAny == \E t \in Presentable, ty \in TokenTypes : VerifyToken(t, ty)

GetCurrentUserAny == \E t \in Presentable : GetCurrentUser(t)

CallGetCurrentActiveUserAny == \E i \in DOMAIN users : CallGetCurrentActiveUser(i)

CallRoleCheckerAny ==
    \E i \in DOMAIN users, allowed \in AllowedRoleInputs : CallRoleChecker(allowed, i)

CallPermissionCheckerAny ==
    \E i \in DOMAIN users, required \in RequiredPermissionInputs :
        CallPermissionChecker(required, i)

UpdateUserAny ==
    \E i \in UserIdInputs, r \in {NoneV} \cup {IntV(n) : n \in RoleIdInputs} :
        UpdateUser(i, NoneV, NoneV, r)

DeleteUserAny == \E i \in UserIdInputs : DeleteUser(i)

SetActiveAny == \E i \in UserIdInputs, flag \in BOOLEAN : SetActive(i, flag)

\* what the client of the service runs presents: the tokens of its last login, or no token
ClientTokens == HeldTokens \cup {StrV("not-a-jwt")}

MeRequestAny == \E t \in ClientTokens : GetCurrentUser(t)

ActiveRequestAny == \E t \in ClientTokens : ActiveRequest(t)

RoleRequestAny == \E t \in ClientTokens : RoleRequest(t, require_admin)

PermissionRequestAny == \E t \in ClientTokens : PermissionRequest(t, <<"asignar_pqrs">>)

RefreshAny == \E t \in ClientTokens : Refresh(t)

LogoutAny == \E t \in ClientTokens : Logout(t)

LoginAny == \E u \in LoginNames, p \in PasswordInputs : Login(u, p)

\* the administration of the service runs: alice is promoted, deactivated, reactivated, deleted
PromoteAny == \E r \in {1, 4} : UpdateUser(2, NoneV, NoneV, IntV(r))

ToggleActiveAny == \E flag \in BOOLEAN : SetActive(2, flag)

RemoveAny == DeleteUser(2)

-----------------------------------------------------------------------------
(* The password policy on its own.                                         *)

\* longest freely chosen beginning of a password
MaxCore == 3

\* longest run of one character that ends a password
MaxPad == 8

\* an uppercase letter, a lowercase letter, a digit, a listed special character and a
\* character of none of these classes
PolicyChars == {"A", "b", "1", "!", "_"}

Repeat(c, n) == [i \in 1..n |-> c]

PolicyPasswords ==
    {core \o Repeat(c, n) :
        core \in UNION {[1..k -> PolicyChars] : k \in 0..MaxCore},
        c \in PolicyChars, n \in 0..MaxPad}

\* a password is handed to the policy
PolicyInit ==
    /\ now = 0
    /\ nticks = 0
    /\ held = [s \in Slots |-> NoneV]
    /\ users = SeedUsers
    /\ roles = SeedRoles
    /\ pqrs = {}
    /\ history = <<>>
    /\ calls = NoCalls
    /\ res \in {[op |-> "password", password |-> password] : password \in PolicyPasswords}

ValidatePasswordStrength ==
    /\ res.op = "password"
    /\ res' = [op |-> "validate_password_strength", password |-> res.password,
               out |-> validate_password_strength(res.password)]
    /\ UNCHANGED <<now, nticks, held, users, roles, pqrs, history, calls>>

PolicyNext == ValidatePasswordStrength

PolicySpec == PolicyInit /\ [][PolicyNext]_vars

-----------------------------------------------------------------------------
(* Accounts: registration, update and deletion of users.                   *)

\* largest id a registered user gets
MaxUserId == 4

\* "Strong1!"
Strong1 == <<"S", "t", "r", "o", "n", "g", "1", "!">>

\* "Weak1!"
Weak1 == <<"W", "e", "a", "k", "1", "!">>

\* "NoDigits!"
NoDigits == <<"N", "o", "D", "i", "g", "i", "t", "s", "!">>

RegisterUsernames == {"alice", "bob"}

RegisterEmails == {"alice@pqrs.co", "bob@pqrs.co"}

RegisterPasswords == {Strong1, Weak1, NoDigits}

\* the salts bcrypt draws
Salts == {"s1", "s2"}

\* POST /auth/register
Register(username, email, password, full_name, salt) ==
    LET out == register(users, roles, username, email, password, full_name, salt) IN
    /\ out.kind = "return" => out.value.id <= MaxUserId
    /\ res' = [op |-> "register", username |-> username, email |-> email,
               password |-> password, out |-> out]
    /\ users' = IF out.kind = "return" THEN create(users, out.value) ELSE users
    /\ UNCHANGED <<now, nticks, held, roles, pqrs, history, calls>>

RegisterAny ==
    \E username \in RegisterUsernames, email \in RegisterEmails,
       password \in RegisterPasswords, salt \in Salts :
        Register(username, email, password, "Bob", salt)

\* update_user with an email: none, empty, one in the store, a new one
ChangeEmailAny ==
    \E i \in UserIdInputs,
       email \in {NoneV, StrV("")} \cup {StrV(e) : e \in RegisterEmails \cup {"new@pqrs.co"}} :
        UpdateUser(i, email, NoneV, NoneV)

AccountNext ==
    \/ RegisterAny
    \/ ChangeEmailAny
    \/ DeleteUserAny

AccountSpec == Init /\ [][AccountNext]_vars

-----------------------------------------------------------------------------
(* Hashing and verifying on their own.                                     *)

\* characters by which the passwords hashed pass the 72 bytes bcrypt reads
MaxOver == 1

\* passwords of 1 and 8 characters and of lengths around 72, ending differently
HashPasswords ==
    {Repeat("a", n) \o <<c>> : n \in {0, 7} \cup (70..(71 + MaxOver)), c \in {"X", "Y"}}

\* stored strings that no hasher produced: an empty one, a word, a plaintext password
MalformedHashes == {StrV(""), StrV("not-a-hash"), StrV("Admin123!")}

\* a password is hashed and a password is offered against the hash, or against a stored string
HashInit ==
    /\ now = 0
    /\ nticks = 0
    /\ held = [s \in Slots |-> NoneV]
    /\ users = SeedUsers
    /\ roles = SeedRoles
    /\ pqrs = {}
    /\ history = <<>>
    /\ calls = NoCalls
    /\ res \in {[op |-> "passwords", password |-> password, plain_password |-> plain_password,
                 salt |-> salt] :
                    password \in HashPasswords, plain_password \in HashPasswords, salt \in Salts}
               \cup {[op |-> "stored", plain_password |-> plain_password,
                       hashed_password |-> hashed_password] :
                          plain_password \in HashPasswords, hashed_password \in MalformedHashes}

HashAndVerify ==
    /\ res.op = "passwords"
    /\ res' = [op |-> "verify_password", password |-> res.password,
               plain_password |-> res.plain_password,
               hashed_password |-> hash_password(res.password, res.salt),
               out |-> verify_password(res.plain_password, hash_password(res.password, res.salt))]
    /\ UNCHANGED <<now, nticks, held, users, roles, pqrs, history, calls>>

VerifyStored ==
    /\ res.op = "stored"
    /\ res' = [op |-> "verify_stored", plain_password |-> res.plain_password,
               hashed_password |-> res.hashed_password,
               out |-> verify_password(res.plain_password, res.hashed_password)]
    /\ UNCHANGED <<now, nticks, held, users, roles, pqrs, history, calls>>

HashNext == HashAndVerify \/ VerifyStored

HashSpec == HashInit /\ [][HashNext]_vars

-----------------------------------------------------------------------------
(* The /users endpoints.                                                   *)

\* who calls: the bearer of a token, or the stored user a token has been resolved to
UsersCallers == ClientTokens \cup {IntV(i) : i \in UserIdInputs}

\* what Depends(get_current_user) hands to the guard for this caller
CurrentUserOf(who) ==
    IF who.ty # "int" THEN get_current_user(who, now, users, roles)
    ELSE IF who.n \in DOMAIN users THEN Ret(LoadUser(users, roles, who.n))
    ELSE credentials_exception

\* the UserUpdate bodies sent: a role, a deactivation, an activation
UpdateBodies ==
    {[NoUpdate EXCEPT !.role_id = IntV(3)],
     [NoUpdate EXCEPT !.is_active = BoolV(FALSE)],
     [NoUpdate EXCEPT !.is_active = BoolV(TRUE)]}

\* the answer and the rows committed: the guard's failure, or what the endpoint body did
UsersStep(endpoint, who, user_id, body, guard, done) ==
    /\ res' = [op |-> "users", endpoint |-> endpoint, who |-> who, user_id |-> user_id,
               body |-> body, out |-> IF guard.kind = "raise" THEN guard ELSE done.out]
    /\ users' = IF guard.kind = "raise" THEN users ELSE done.users
    /\ UNCHANGED <<now, nticks, held, roles, pqrs, history, calls>>

UsersListUsers(who) ==
    LET guard == Depends_RoleChecker(require_admin, CurrentUserOf(who)) IN
    UsersStep("list_users", who, 0, NoneV, guard, users_list_users(guard.value, users, roles))

UsersGetStatistics(who) ==
    LET guard == Depends_RoleChecker(require_admin, CurrentUserOf(who)) IN
    UsersStep("get_statistics", who, 0, NoneV, guard,
              users_get_statistics(guard.value, users, roles))

UsersGetUserById(who, user_id) ==
    LET guard == Depends_RoleChecker(require_admin, CurrentUserOf(who)) IN
    UsersStep("get_user_by_id", who, user_id, NoneV, guard,
              users_get_user_by_id(guard.value, user_id, users, roles))

UsersUpdateUser(who, user_id, user_data) ==
    LET guard == Depends_RoleChecker(require_admin, CurrentUserOf(who)) IN
    UsersStep("update_user", who, user_id, user_data, guard,
              users_update_user(guard.value, user_id, user_data, users, roles))

UsersDeleteUser(who, user_id) ==
    LET guard == Depends_RoleChecker(require_admin, CurrentUserOf(who)) IN
    UsersStep("delete_user", who, user_id, NoneV, guard,
              users_delete_user(guard.value, user_id, users, roles))

UsersActivateUser(who, user_id) ==
    LET guard == Depends_RoleChecker(require_admin, CurrentUserOf(who)) IN
    UsersStep("activate_user", who, user_id, NoneV, guard,
              users_activate_user(guard.value, user_id, users, roles))

UsersDeactivateUser(who, user_id) ==
    LET guard == Depends_RoleChecker(require_admin, CurrentUserOf(who)) IN
    UsersStep("deactivate_user", who, user_id, NoneV, guard,
              users_deactivate_user(guard.value, user_id, users, roles))

UsersResetPassword(who, user_id, new_password, salt) ==
    LET guard == Depends_RoleChecker(require_admin, CurrentUserOf(who)) IN
    UsersStep("reset_password", who, user_id, new_password, guard,
              users_reset_password(guard.value, user_id, new_password, salt, users, roles))

UsersListUsersAny == \E who \in UsersCallers : UsersListUsers(who)

UsersGetStatisticsAny == \E who \in UsersCallers : UsersGetStatistics(who)

UsersGetUserByIdAny == \E who \in UsersCallers, i \in UserIdInputs : UsersGetUserById(who, i)

UsersUpdateUserAny ==
    \E who \in UsersCallers, i \in UserIdInputs, user_data \in UpdateBodies :
        UsersUpdateUser(who, i, user_data)

UsersDeleteUserAny == \E who \in UsersCallers, i \in UserIdInputs : UsersDeleteUser(who, i)

UsersActivateUserAny == \E who \in UsersCallers, i \in UserIdInputs : UsersActivateUser(who, i)

UsersDeactivateUserAny ==
    \E who \in UsersCallers, i \in UserIdInputs : UsersDeactivateUser(who, i)

UsersResetPasswordAny ==
    \E who \in UsersCallers, i \in UserIdInputs, new_password \in {Strong1, Weak1} :
        UsersResetPassword(who, i, new_password, "s1")

\* the administrator logs in, and others try to with the administrator's password
AdminLoginAny == \E u \in LoginNames : Login(u, Admin123)

UsersNext ==
    \/ AdminLoginAny
    \/ UsersListUsersAny
    \/ UsersGetStatisticsAny
    \/ UsersGetUserByIdAny
    \/ UsersUpdateUserAny
    \/ UsersDeleteUserAny
    \/ UsersActivateUserAny
    \/ UsersDeactivateUserAny
    \/ UsersResetPasswordAny

UsersSpec == Init /\ [][UsersNext]_vars

-----------------------------------------------------------------------------
(* The /pqrs endpoints.                                                    *)

\* identifiers handed to PQRS rows in the exploration
MaxPqrsId == 5

\* status changes made in the exploration
MaxChanges == 2

\* the status changes recorded so far
StatusChanges(hs) == Cardinality({i \in 1..Len(hs) : hs[i].old_status_id # NoneV})

\* who calls: the stored user a token has been resolved to
PqrsCallers == {IntV(1), IntV(2)}

\* the user who files and withdraws PQRS
PqrsOwners == {IntV(2)}

\* the PQRS asked for
PqrsIdInputs == {1, 2}

\* the status ids asked for: a stored one and one that is not stored
StatusIdInputs == {2, 3}

\* the answer and the rows committed: the dependency's failure, or what the endpoint body did
PqrsStep(endpoint, who, pqrs_id, new_status_id, guard, done) ==
    /\ res' = [op |-> "pqrs", endpoint |-> endpoint, who |-> who, pqrs_id |-> pqrs_id,
               new_status_id |-> new_status_id,
               out |-> IF guard.kind = "raise" THEN guard ELSE done.out]
    /\ pqrs' = IF guard.kind = "raise" THEN pqrs ELSE done.pqrs
    /\ history' = IF guard.kind = "raise" THEN history ELSE done.history
    /\ UNCHANGED <<now, nticks, held, users, roles, calls>>

\* POST /pqrs
PqrsCreatePqrs(who) ==
    LET guard == CurrentUserOf(who) IN
    /\ NextPqrsId(pqrs, history) <= MaxPqrsId
    /\ PqrsStep("create_pqrs", who, 0, 0, guard,
                create_pqrs(pqrs, history, SeedStatuses, now, guard.value.id))

\* DELETE /pqrs/{pqrs_id}
PqrsDeletePqrs(who, pqrs_id) ==
    LET guard == CurrentUserOf(who)
        done == delete_pqrs(pqrs, history, pqrs_id, guard.value.id)
        success == done.out.kind = "return" /\ done.out.value.b
    IN
    PqrsStep("delete_pqrs", who, pqrs_id, 0, guard,
             IF done.out.kind = "raise" THEN done
             ELSE IF ~success
               THEN [done EXCEPT !.out = HTTPException(500, <<"Error al eliminar la PQRS">>)]
               ELSE [done EXCEPT !.out = Ret(DictV([message |-> StrV("PQRS eliminada exitosamente"),
                                                    pqrs_id |-> IntV(pqrs_id),
                                                    success |-> BoolV(TRUE)]))])

\* POST /pqrs/{pqrs_id}/change-status
PqrsChangeStatus(who, pqrs_id, new_status_id) ==
    LET guard == CurrentUserOf(who) IN
    /\ StatusChanges(history) < MaxChanges
    /\ PqrsStep("change_status", who, pqrs_id, new_status_id, guard,
                change_status(pqrs, history, SeedStatuses, pqrs_id, new_status_id,
                              guard.value.id, NoneV))

PqrsCreatePqrsAny == \E who \in PqrsOwners : PqrsCreatePqrs(who)

PqrsDeletePqrsAny == \E who \in PqrsOwners, pqrs_id \in PqrsIdInputs : PqrsDeletePqrs(who, pqrs_id)

PqrsChangeStatusAny ==
    \E who \in PqrsCallers, pqrs_id \in PqrsIdInputs, new_status_id \in StatusIdInputs :
        PqrsChangeStatus(who, pqrs_id, new_status_id)

PqrsNext ==
    \/ PqrsCreatePqrsAny
    \/ PqrsDeletePqrsAny
    \/ PqrsChangeStatusAny

PqrsSpec == Init /\ [][PqrsNext]_vars

-----------------------------------------------------------------------------
(* Logins and password changes.                                            *)

\* whose password is changed: alice's, and that of a user who is not stored
PasswordUserIds == {2, 3}

\* the passwords offered as the current one
CurrentPasswords == {Admin123, Alice123, Strong1}

\* the passwords asked for: an acceptable new one, a weak one, alice's first one again
NewPasswords == {Strong1, Weak1, Alice123}

\* AuthService.change_password
ChangePassword(user_id, current_password, new_password, salt) ==
    LET done == change_password(users, roles, user_id, current_password, new_password, salt) IN
    /\ res' = [op |-> "change_password", user_id |-> user_id,
               current_password |-> current_password, new_password |-> new_password,
               out |-> done.out]
    /\ users' = done.users
    /\ UNCHANGED <<now, nticks, held, roles, pqrs, history, calls>>

\* AuthService.reset_password
ResetPassword(user_id, new_password, salt) ==
    LET done == auth_reset_password(users, roles, user_id, new_password, salt) IN
    /\ res' = [op |-> "reset_password", user_id |-> user_id, new_password |-> new_password,
               out |-> done.out]
    /\ users' = done.users
    /\ UNCHANGED <<now, nticks, held, roles, pqrs, history, calls>>

ChangePasswordAny ==
    \E user_id \in PasswordUserIds, current_password \in CurrentPasswords,
       new_password \in NewPasswords, salt \in Salts :
        ChangePassword(user_id, current_password, new_password, salt)

ResetPasswordAny ==
    \E user_id \in PasswordUserIds, new_password \in NewPasswords, salt \in Salts :
        ResetPassword(user_id, new_password, salt)

\* a login with any of the passwords a user has had
LoginCurrentAny == \E u \in LoginNames, p \in CurrentPasswords : Login(u, p)

CredentialNext ==
    \/ LoginCurrentAny
    \/ RefreshAny
    \/ MeRequestAny
    \/ CallGetCurrentActiveUserAny
    \/ CallRoleCheckerAny
    \/ CallPermissionCheckerAny
    \/ ChangePasswordAny
    \/ ResetPasswordAny
    \/ ToggleActiveAny

CredentialSpec == Init /\ [][CredentialNext]_vars

-----------------------------------------------------------------------------
(* Requests of a user who may have been deactivated.                       *)

\* POST /auth/change-password
ChangePasswordRequest(who, current_password, new_password, salt) ==
    LET guard == CurrentUserOf(who)
        done == change_password(users, roles, guard.value.id, current_password, new_password, salt)
    IN
    /\ res' = [op |-> "change_password_request", who |-> who,
               current_password |-> current_password, new_password |-> new_password,
               out |-> IF guard.kind = "raise" THEN guard
                       ELSE IF done.out.kind = "raise" THEN done.out
                       ELSE IF ~done.out.value
                         THEN HTTPException(500, <<"Error al cambiar la contraseña">>)
                       ELSE Ret(DictV([message |-> StrV("Contraseña cambiada exitosamente"),
                                       success |-> BoolV(TRUE)]))]
    /\ users' = IF guard.kind = "raise" THEN users ELSE done.users
    /\ UNCHANGED <<now, nticks, held, roles, pqrs, history, calls>>

ChangePasswordRequestAny ==
    \E who \in PqrsOwners, current_password \in CurrentPasswords,
       new_password \in NewPasswords, salt \in Salts :
        ChangePasswordRequest(who, current_password, new_password, salt)

ProtectedNext ==
    \/ ToggleActiveAny
    \/ ChangePasswordRequestAny
    \/ PqrsCreatePqrsAny
    \/ PqrsChangeStatusAny

ProtectedSpec == Init /\ [][ProtectedNext]_vars

-----------------------------------------------------------------------------
(* Register calls that run at the same time.                               *)

\* POST /auth/register arrives: the call runs to its first await
RegisterBegin(c, username, email, password, salt) ==
    /\ calls[c].pc = "idle"
    /\ calls' = [calls EXCEPT ![c] = register_begin(username, email, password, "New User", salt)]
    /\ res' = [op |-> "register_begin", call |-> c]
    /\ UNCHANGED <<now, nticks, held, users, roles, pqrs, history>>

\* an await of the call returns and the call runs to its next await, or to its end
RegisterResume(c) ==
    LET next == register_resume(calls[c], users, roles) IN
    /\ calls[c].pc \notin {"idle", "done"}
    /\ next.out # NoneV /\ next.out.kind = "return" => next.out.value.id <= MaxUserId
    /\ calls' = [calls EXCEPT ![c] = next]
    /\ users' = IF next.out # NoneV /\ next.out.kind = "return"
                  THEN commit_user(users, next.out.value) ELSE users
    /\ res' = [op |-> "register_resume", call |-> c]
    /\ UNCHANGED <<now, nticks, held, roles, pqrs, history>>

RegisterBeginAny ==
    \E c \in RegisterCalls, username \in RegisterUsernames, email \in RegisterEmails,
       password \in {Strong1, Weak1}, salt \in Salts :
        RegisterBegin(c, username, email, password, salt)

RegisterResumeAny == \E c \in RegisterCalls : RegisterResume(c)

RaceNext == RegisterBeginAny \/ RegisterResumeAny \/ RemoveAny

RaceSpec == Init /\ [][RaceNext]_vars

\* the token service on its own
TokenNext ==
    \/ TickMinute
    \/ CreateAccessTokenAny
    \/ CreateRefreshTokenAny
    \/ CreateTokenPairAny
    \/ VerifyTokenAny
    \/ GetCurrentUserAny

TokenSpec == Init /\ [][TokenNext]_vars

\* the guards on users resolved from the store
GuardNext ==
    \/ CallGetCurrentActiveUserAny
    \/ CallRoleCheckerAny
    \/ CallPermissionCheckerAny
    \/ UpdateUserAny
    \/ DeleteUserAny
    \/ SetActiveAny

GuardSpec == Init /\ [][GuardNext]_vars

\* the service: logins, guarded requests and user administration
Next ==
    \/ TickAny
    \/ LoginAny
    \/ RefreshAny
    \/ LogoutAny
    \/ MeRequestAny
    \/ ActiveRequestAny
    \/ RoleRequestAny
    \/ PermissionRequestAny
    \/ PromoteAny
    \/ ToggleActiveAny
    \/ RemoveAny

Spec == Init /\ [][Next]_vars

-----------------------------------------------------------------------------
(* Properties of the token service (TokenSpec).                            *)

\* the type claim a well-formed token carries (None when it carries none)
TypeClaim(t) == Get(t.payload, "type")

\* a token the service must not accept as token_type at time at
Unacceptable(t, token_type, at) ==
    \/ t.ty # "jwt"
    \/ t.alg # ALGORITHM
    \/ t.sig # Sign(t.payload, SECRET_KEY)
    \/ TypeClaim(t) # StrV(token_type)
    \/ ("exp" \in DOMAIN t.payload /\ t.payload["exp"].n < at)

\* the other token type
OtherType(token_type) == IF token_type = "access" THEN "refresh" ELSE "access"

\* C1: verify_token returns None whenever the type claim of the token differs from the
\* expected type; a token of create_access_token is rejected as "refresh" and a token of
\* create_refresh_token is rejected as "access".
C1_TypeMismatchRejected ==
    res.op = "verify_token" =>
        /\ (res.token.ty = "jwt" /\ TypeClaim(res.token) # StrV(res.token_type))
              => res.out = Ret(NoneV)
        /\ (res.token = held["access_token"] /\ res.token_type = "refresh")
              => res.out = Ret(NoneV)
        /\ (res.token = held["refresh_token"] /\ res.token_type = "access")
              => res.out = Ret(NoneV)

\* a held token that is rejected for its type alone: it is accepted as the other type
C1_Witness ==
    /\ res.op = "verify_token"
    /\ res.token \in HeldTokens
    /\ res.out = Ret(NoneV)
    /\ ~Unacceptable(res.token, OtherType(res.token_type), res.at)
    /\ Get(res.token.payload, "sub").ty = "str"

\* C2: a token verified at a time later than its exp is rejected, also when its signature
\* and its type claim are right.
C2_ExpiredRejected ==
    (/\ res.op = "verify_token"
     /\ res.token.ty = "jwt"
     /\ "exp" \in DOMAIN res.token.payload
     /\ res.at > res.token.payload["exp"].n)
        => res.out = Ret(NoneV)

\* a held token, rightly signed and of the expected type, verified after its exp
C2_Witness ==
    /\ res.op = "verify_token"
    /\ res.token \in HeldTokens
    /\ TypeClaim(res.token) = StrV(res.token_type)
    /\ Get(res.token.payload, "sub").ty = "str"
    /\ res.at > res.token.payload["exp"].n
    /\ res.out = Ret(NoneV)

\* C3: verify_token raises nothing: every unacceptable token (malformed, wrongly signed,
\* expired, of the wrong type) gives the one value None, and get_current_user answers all
\* of them with the same 401 failure.
C3_InvalidIsNone ==
    /\ res.op = "verify_token" =>
          /\ res.out.kind = "return"
          /\ Unacceptable(res.token, res.token_type, res.at) => res.out = Ret(NoneV)
    /\ (res.op = "get_current_user" /\ Unacceptable(res.token, "access", res.at))
          => res.out = credentials_exception

\* a token signed with another key is answered with None
C3_Witness ==
    /\ res.op = "verify_token"
    /\ res.token.ty = "jwt"
    /\ res.token.sig.key # SECRET_KEY
    /\ res.token.payload["exp"].n >= res.at
    /\ res.out = Ret(NoneV)

\* C5: create_token_pair returns token_type "bearer", an access token whose payload is the
\* claims plus exp and type = access, and a refresh token whose payload holds sub, exp and
\* type = refresh only.
C5_PairContents ==
    res.op = "create_token_pair" =>
        LET pair == res.out.value.d
            access == pair["access_token"].payload
            refresh == pair["refresh_token"].payload
        IN /\ pair["token_type"] = StrV("bearer")
           /\ DOMAIN access = DOMAIN res.data \cup {"exp", "type"}
           /\ \A k \in DOMAIN res.data \ {"exp", "type"} : access[k] = res.data[k]
           /\ access["type"] = StrV("access")
           /\ access["exp"] = IntV(res.at + ACCESS_TOKEN_EXPIRE_MINUTES)
           /\ DOMAIN refresh = {"sub", "exp", "type"}
           /\ refresh["sub"] = Get(res.data, "sub")
           /\ refresh["type"] = StrV("refresh")
           /\ refresh["exp"] = IntV(res.at + REFRESH_TOKEN_EXPIRE_DAYS * 24 * 60)

\* a pair made from claims that carry a username, a role and permissions
C5_Witness ==
    /\ res.op = "create_token_pair"
    /\ {"sub", "username", "email", "full_name", "role", "role_id", "permissions"}
          \subseteq DOMAIN res.data
    /\ held["refresh_token"] = res.out.value.d["refresh_token"]

\* C6: the issuing functions embed exp = issue time + ttl for every ttl passed, zero
\* included, and the default TTL only when no ttl is passed.
C6_ExpIsIssuePlusTtl ==
    res.op \in {"create_access_token", "create_refresh_token"} =>
        res.out.value.payload["exp"] =
            IntV(res.at + (IF res.expires_delta # NoneV THEN res.expires_delta.minutes
                           ELSE IF res.op = "create_access_token"
                             THEN ACCESS_TOKEN_EXPIRE_MINUTES
                             ELSE REFRESH_TOKEN_EXPIRE_DAYS * 24 * 60))

-----------------------------------------------------------------------------
(* Properties of the access guards (GuardSpec).                            *)

\* C8: get_current_active_user returns the user get_current_user resolved when the user's
\* is_active flag is true, and fails with 403 "Usuario inactivo" when it is false.
C8_ActiveOrInactiveFailure ==
    res.op = "get_current_active_user" =>
        IF res.current_user.is_active
          THEN res.out = Ret(res.current_user)
          ELSE /\ res.out.kind = "raise"
               /\ res.out.exc = "HTTPException"
               /\ res.out.status_code = 403
               /\ res.out.detail = <<"Usuario inactivo">>

\* get_current_active_user has refused a deactivated user
C8_Witness ==
    /\ res.op = "get_current_active_user"
    /\ ~res.current_user.is_active
    /\ res.out.kind = "raise"

\* C9: RoleChecker(allowed_roles) on an active user returns the user iff the name of the
\* user's role is one of allowed_roles, and otherwise denies with 403 and a reason that
\* lists the allowed roles.
C9_RoleMembership ==
    (res.op = "RoleChecker" /\ res.current_user.is_active) =>
        IF \E i \in 1..Len(res.allowed_roles) : res.allowed_roles[i] = res.current_user.role.name
          THEN res.out = Ret(res.current_user)
          ELSE /\ res.out.kind = "raise"
               /\ res.out.exc = "HTTPException"
               /\ res.out.status_code = 403
               /\ res.out.detail = <<"Requiere uno de estos roles: ">> \o res.allowed_roles

\* a user whose role was changed to Gestor passes RoleChecker(["Administrador", "Gestor"])
C9_Witness ==
    /\ res.op = "RoleChecker"
    /\ res.current_user.is_active
    /\ res.current_user.role.name = "Gestor"
    /\ res.allowed_roles = <<"Administrador", "Gestor">>
    /\ res.out = Ret(res.current_user)

\* C10: PermissionChecker(required_permissions) on an active user returns the user iff every
\* required permission is a permission of the user's role, and otherwise denies with 403
\* naming the first required permission, in the order given, that is missing.
C10_AllPermissionsRequired ==
    (res.op = "PermissionChecker" /\ res.current_user.is_active) =>
        LET required == res.required_permissions
            held_names == res.current_user.role.permissions
        IN IF \A i \in 1..Len(required) : required[i] \in held_names
             THEN res.out = Ret(res.current_user)
             ELSE /\ res.out.kind = "raise"
                  /\ res.out.exc = "HTTPException"
                  /\ res.out.status_code = 403
                  /\ \E i \in 1..Len(required) :
                        /\ required[i] \notin held_names
                        /\ \A j \in 1..(i - 1) : required[j] \in held_names
                        /\ res.out.detail = <<"Permiso requerido: ", required[i]>>

\* a user who holds the first required permission and other ones is denied for the second
C10_Witness ==
    /\ res.op = "PermissionChecker"
    /\ res.current_user.is_active
    /\ Len(res.required_permissions) = 2
    /\ res.required_permissions[1] \in res.current_user.role.permissions
    /\ res.required_permissions[2] \notin res.current_user.role.permissions
    /\ res.current_user.role.permissions \ {res.required_permissions[1]} # {}
    /\ res.out.kind = "raise"

-----------------------------------------------------------------------------
(* Properties of the service runs (Spec).                                  *)

\* the stored user a token names in its sub claim (None when there is none)
SubjectOf(t) ==
    IF \E i \in DOMAIN users : IntV(i) = Get(t.payload, "sub")
      THEN LoadUser(users, roles, CHOOSE i \in DOMAIN users : IntV(i) = Get(t.payload, "sub"))
      ELSE NoneV

\* the access token of the last successful login, presented before its exp
PresentsLoginToken ==
    /\ res.op \in {"get_current_user", "active_request", "role_request", "permission_request"}
    /\ res.token # NoneV
    /\ res.token = held["access_token"]
    /\ res.at <= res.token.payload["exp"].n

\* C4: the access token of a successful login, presented to get_current_user before its exp
\* while its user is still stored, resolves to that user, role and permissions loaded.
C4_LoginTokenResolves ==
    (PresentsLoginToken /\ res.op = "get_current_user" /\ SubjectOf(res.token) # NoneV)
        => res.out = Ret(SubjectOf(res.token))

\* C7: a request carrying a token issued before the user's role was changed is allowed or
\* denied by RoleChecker and PermissionChecker according to the role and permissions stored
\* now, not according to the claims of the token.
C7_GuardsUseStoredRole ==
    (/\ PresentsLoginToken
     /\ res.op \in {"role_request", "permission_request"}
     /\ SubjectOf(res.token) # NoneV
     /\ SubjectOf(res.token).is_active
     /\ res.token.payload["role"] # StrV(SubjectOf(res.token).role.name))
        => LET user == SubjectOf(res.token) IN
           IF res.op = "role_request"
             THEN (res.out = Ret(user)) <=> (user.role.name \in Elems(res.allowed_roles))
             ELSE (res.out = Ret(user))
                     <=> (Elems(res.required_permissions) \subseteq user.role.permissions)

\* the failure a guarded request ends with: its status code and reason
Denied(out, status_code, detail) ==
    /\ out.kind = "raise"
    /\ out.exc = "HTTPException"
    /\ out.status_code = status_code
    /\ out.detail = detail

\* C11: a guarded request passes token verification, user lookup, the active check and the
\* role or permission check in this order, and the first stage that fails decides the
\* answer: 401 for an invalid token or a subject with no user, 403 "Usuario inactivo" for
\* an inactive user, 403 for a missing role or permission; it is allowed only when no
\* stage fails, whatever role and permissions the token carries.
C11_StagesInOrder ==
    res.op \in {"get_current_user", "active_request", "role_request", "permission_request"} =>
        LET user == IF res.token.ty = "jwt" THEN SubjectOf(res.token) ELSE NoneV IN
        IF Unacceptable(res.token, "access", res.at) \/ user = NoneV
          THEN Denied(res.out, 401, <<"No se pudo validar las credenciales">>)
        ELSE IF res.op # "get_current_user" /\ ~user.is_active
          THEN Denied(res.out, 403, <<"Usuario inactivo">>)
        ELSE IF res.op = "role_request" /\ user.role.name \notin Elems(res.allowed_roles)
          THEN Denied(res.out, 403, <<"Requiere uno de estos roles: ">> \o res.allowed_roles)
        ELSE IF /\ res.op = "permission_request"
                /\ ~(Elems(res.required_permissions) \subseteq user.role.permissions)
          THEN res.out.kind = "raise" /\ res.out.exc = "HTTPException" /\ res.out.status_code = 403
        ELSE res.out = Ret(user)

-----------------------------------------------------------------------------
(* Properties of the password policy (PolicySpec).                         *)

\* the characters the policy names as special
PolicySpecials ==
    {"!", "@", "#", "$", "%", "^", "&", "*", "(", ")", ",", ".", "?", "\"", ":", "{", "}",
     "|", "<", ">"}

\* the reasons of the five rules, in the order the rules are tested
PolicyReasons ==
    <<"La contraseña debe tener al menos 8 caracteres",
      "La contraseña debe contener al menos una mayúscula",
      "La contraseña debe contener al menos una minúscula",
      "La contraseña debe contener al menos un número",
      "La contraseña debe contener al menos un carácter especial">>

\* the rules a password breaks, by their position in the order
BrokenRules(p) ==
    {r \in 1..5 :
        \/ r = 1 /\ Len(p) < 8
        \/ r = 2 /\ Elems(p) \cap UpperCase = {}
        \/ r = 3 /\ Elems(p) \cap LowerCase = {}
        \/ r = 4 /\ Elems(p) \cap DigitChars = {}
        \/ r = 5 /\ Elems(p) \cap PolicySpecials = {}}

\* C12: validate_password_strength returns (True, None) iff the password has length >= 8,
\* an uppercase letter, a lowercase letter, a digit and one of the listed special
\* characters; otherwise it returns (False, reason) with the reason of the first rule, in
\* the order length, uppercase, lowercase, digit, special, that the password breaks; the
\* five reasons are pairwise distinct.
C12_FirstBrokenRule ==
    /\ \A i, j \in 1..5 : PolicyReasons[i] = PolicyReasons[j] => i = j
    /\ res.op = "validate_password_strength" =>
          LET broken == BrokenRules(res.password) IN
          IF broken = {}
            THEN res.out = <<TRUE, NoneV>>
            ELSE res.out = <<FALSE, StrV(PolicyReasons[CHOOSE r \in broken :
                                                          \A q \in broken : r <= q])>>

\* a password of nine characters with uppercase, lowercase and a special character but no
\* digit is refused for the missing digit
C12_Witness ==
    /\ res.op = "validate_password_strength"
    /\ Len(res.password) = 9
    /\ BrokenRules(res.password) = {4}
    /\ res.out = <<FALSE, StrV("La contraseña debe contener al menos un número")>>

-----------------------------------------------------------------------------
(* Properties of login, registration and refresh.                          *)

\* the stored users an identifier names, by username or by email
Identified(identifier) ==
    {i \in DOMAIN users : users[i].username = identifier \/ users[i].email = identifier}

\* the stored hash of user i is the hash of this password
PasswordOf(i, password) ==
    users[i].password_hash = bcrypt(password, users[i].password_hash.salt)

\* a token pair: an access token and a refresh token carrying their type claims
IsTokenPair(out) ==
    /\ out.kind = "return"
    /\ out.value.d["access_token"].payload["type"] = StrV("access")
    /\ out.value.d["refresh_token"].payload["type"] = StrV("refresh")

FirstBroken(p) == CHOOSE r \in BrokenRules(p) : \A q \in BrokenRules(p) : r <= q

\* a step of register: refused for the policy with nothing stored, or one user added
C14_Step ==
    (res'.op = "register" /\ res' # res) =>
        IF BrokenRules(res'.password) # {}
          THEN /\ Denied(res'.out, 400, <<PolicyReasons[FirstBroken(res'.password)]>>)
               /\ users' = users
        ELSE IF \A j \in DOMAIN users :
                   users[j].username # res'.username /\ users[j].email # res'.email
          THEN \E i \in DOMAIN users' \ DOMAIN users :
                  /\ DOMAIN users' = DOMAIN users \cup {i}
                  /\ \A j \in DOMAIN users : users'[j] = users[j]
                  /\ users'[i].username = res'.username
                  /\ users'[i].email = res'.email
                  /\ users'[i].is_active
                  /\ roles[users'[i].role_id].name = "Usuario"
                  \* what is stored is a bcrypt string, which no plaintext is
                  /\ users'[i].password_hash.ty = "bcrypt"
                  /\ verify_password(res'.password, users'[i].password_hash) = Ret(TRUE)
                  /\ \A q \in RegisterPasswords \ {res'.password} :
                        verify_password(q, users'[i].password_hash) = Ret(FALSE)
        ELSE TRUE

\* C14: register with a password that breaks the policy fails with 400 and the reason of
\* the policy and stores no user; with a conforming password and an unused username and
\* email it stores one more user, active, of role "Usuario", whose password_hash is not
\* the plaintext and verifies against it.
C14_RegisterOutcome == [][C14_Step]_vars

\* a registration has stored a user
C14_Witness ==
    /\ res.op = "register"
    /\ res.out.kind = "return"
    /\ res.out.value.id \in DOMAIN users
    /\ users[res.out.value.id].username = res.username

\* no two stored users share a username and no two share an email
UniqueIdentities(us) ==
    \A i, j \in DOMAIN us :
        (us[i].username = us[j].username \/ us[i].email = us[j].email) => i = j

\* the failure for a username or email that is taken
DuplicateIdentity(out) == out.kind = "raise" /\ out.exc = "HTTPException" /\ out.status_code = 400

\* a step keeps the identities unique; register with a taken username or email, and
\* update_user to the email of another user, fail with 400 and store nothing
C15_Step ==
    /\ UniqueIdentities(users')
    /\ (/\ res'.op = "register" /\ res' # res
        /\ \E j \in DOMAIN users :
              users[j].username = res'.username \/ users[j].email = res'.email)
          => DuplicateIdentity(res'.out) /\ users' = users
    /\ (/\ res'.op = "update_user" /\ res' # res
        /\ res'.user_id \in DOMAIN users
        /\ \E j \in DOMAIN users \ {res'.user_id} : res'.email = StrV(users[j].email))
          => DuplicateIdentity(res'.out) /\ users' = users

\* C15: after any sequence of register, update_user and delete_user, run one after
\* another, no two stored users share a username and no two share an email; register with
\* a taken username or email and update_user to an email of another user fail with 400 and
\* leave the store unchanged.
C15_UniqueIdentities == UniqueIdentities(users) /\ [][C15_Step]_vars

\* a user registered under a username that a deleted user had, next to three other
\* users, after a registration was refused for its email
C15_Witness ==
    /\ res.op = "register"
    /\ res.out.kind = "raise"
    /\ res.out.detail = <<"El email ya está registrado">>
    /\ \E i \in DOMAIN users : i > 2 /\ users[i].username = "alice"

\* the claims of an access token that describe its user
UserClaims == {"username", "email", "full_name", "role", "role_id", "permissions"}

\* C16: refresh_access_token returns a new token pair exactly when the token verifies as
\* type refresh (rightly signed, typed refresh, not past its exp) and its subject is a
\* stored, active user, and then the claims of the new access token are those of the
\* stored user at that time; every other token is answered with 401 and no token.
C16_RefreshOutcome ==
    res.op = "refresh" =>
        LET user == IF res.token.ty = "jwt" THEN SubjectOf(res.token) ELSE NoneV
            redeemable == /\ ~Unacceptable(res.token, "refresh", res.at)
                          /\ user # NoneV
                          /\ user.is_active
        IN IF redeemable
             THEN /\ IsTokenPair(res.out)
                  /\ \A k \in UserClaims :
                        res.out.value.d["access_token"].payload[k] = user_data_of(user)[k]
             ELSE /\ res.out.kind = "raise"
                  /\ res.out.exc = "HTTPException"
                  /\ res.out.status_code = 401

\* the slot's type claim
SlotType(s) == IF s = "access_token" THEN "access" ELSE "refresh"

\* C17: no operation of the server invalidates a token it issued: until its exp the
\* access token a client holds verifies as access and the refresh token verifies as
\* refresh, whatever logins, refreshes, logouts and user administration happened since.
C17_IssuedTokensStayValid ==
    \A s \in Slots :
        (held[s] # NoneV /\ now <= held[s].payload["exp"].n)
            => /\ verify_token(held[s], SlotType(s), now).kind = "return"
               /\ verify_token(held[s], SlotType(s), now).value # NoneV

\* after a deactivation the user is inactive; login and refresh for an inactive user fail
\* and login of an active user with the right password succeeds
C18_State ==
    /\ (res.op = "deactivate_user" /\ res.out.kind = "return")
          => ~users[res.user_id].is_active
    /\ res.op = "login" =>
          \A i \in Identified(res.username) :
              /\ ~users[i].is_active => res.out.kind = "raise"
              /\ (users[i].is_active /\ PasswordOf(i, res.password)) => IsTokenPair(res.out)
    /\ (/\ res.op = "refresh"
        /\ res.token.ty = "jwt"
        /\ SubjectOf(res.token) # NoneV
        /\ ~SubjectOf(res.token).is_active)
          => res.out.kind = "raise"

\* an inactive user becomes active by activate_user only
C18_Step ==
    \A u \in DOMAIN users \cap DOMAIN users' :
        (~users[u].is_active /\ users'[u].is_active)
            => res'.op = "activate_user" /\ res'.user_id = u

\* C18: after deactivate_user(u) every login and every refresh for u fails, and no token
\* is issued, until activate_user(u) is performed; once u is active again, login with the
\* right password succeeds.
C18_InactiveGetsNoToken == []C18_State /\ [][C18_Step]_vars

\* the refresh token of a login is presented after its user was deactivated
C18_Witness ==
    /\ res.op = "refresh"
    /\ res.token = held["refresh_token"]
    /\ res.token # NoneV
    /\ SubjectOf(res.token) # NoneV
    /\ ~SubjectOf(res.token).is_active
    /\ res.out.kind = "raise"

-----------------------------------------------------------------------------
(* Properties of the /users endpoints (UsersSpec).                         *)

\* the caller of a request is the stored user a: the request was made for a, or with a
\* rightly signed, unexpired access token whose subject is a
CallerIs(who, a) ==
    IF who.ty = "int" THEN who.n = a
    ELSE /\ who.ty = "jwt"
         /\ ~Unacceptable(who, "access", now)
         /\ Get(who.payload, "sub") = IntV(a)

\* a is stored, active and of role "Administrador"
ActiveAdministrator(a) ==
    /\ a \in DOMAIN users
    /\ users[a].is_active
    /\ roles[users[a].role_id].name = "Administrador"

\* a request of administrator a leaves a stored and active
C19_Step ==
    res'.op = "users" =>
        \A a \in DOMAIN users :
            (CallerIs(res'.who, a) /\ ActiveAdministrator(a))
                => a \in DOMAIN users' /\ users'[a].is_active

C20_Step ==
    (res'.op = "users" /\ ~\E a \in DOMAIN users : CallerIs(res'.who, a) /\ ActiveAdministrator(a))
        => /\ res'.out.kind = "raise"
           /\ users' = users

\* C20: every /users endpoint performs its operation only for a caller who presents a
\* valid access token of a stored, active user of role "Administrador"; for every other
\* caller the request fails and the user store is unchanged.
C20_AdminOnly == [][C20_Step]_vars

\* a user of role "Usuario" is refused the deletion of a user, after an administrator
\* changed the store
C20_Witness ==
    /\ res.op = "users"
    /\ res.endpoint = "delete_user"
    /\ res.who.ty = "int"
    /\ res.who.n \in DOMAIN users
    /\ users[res.who.n].is_active
    /\ roles[users[res.who.n].role_id].name = "Usuario"
    /\ res.user_id \in DOMAIN users
    /\ res.user_id # res.who.n
    /\ users # SeedUsers
    /\ res.out.kind = "raise"
    /\ res.out.status_code = 403

-----------------------------------------------------------------------------
(* Status history of a PQRS.                                               *)

\* the positions of the history records of a PQRS that record a status
StatusRecords(hs, pqrs_id) ==
    {i \in 1..Len(hs) : hs[i].pqrs_id = pqrs_id /\ hs[i].new_status_id # NoneV}

\* the most recent record of a status of the PQRS
LastStatusRecord(hs, pqrs_id) ==
    hs[CHOOSE i \in StatusRecords(hs, pqrs_id) : \A j \in StatusRecords(hs, pqrs_id) : j <= i]

\* a completed create_pqrs or change_status leaves the PQRS in the status its most recent
\* status record names
C21_State ==
    (/\ res.op = "pqrs"
     /\ res.endpoint \in {"create_pqrs", "change_status"}
     /\ res.out.kind = "return")
        => /\ res.out.value \in pqrs
           /\ StatusRecords(history, res.out.value.id) # {}
           /\ LastStatusRecord(history, res.out.value.id).new_status_id
                  = IntV(res.out.value.status_id)

\* a change_status request of a resolved caller: with a stored PQRS and a stored status it
\* appends one record and sets the status, otherwise it is refused with 404 and writes nothing
C21_Step ==
    (res'.op = "pqrs" /\ res'.endpoint = "change_status" /\ res'.who.n \in DOMAIN users)
        => IF /\ \E p \in pqrs : p.id = res'.pqrs_id
              /\ \E s \in SeedStatuses : s.id = res'.new_status_id
             THEN LET p == CHOOSE q \in pqrs : q.id = res'.pqrs_id IN
                  /\ res'.out.kind = "return"
                  /\ Len(history') = Len(history) + 1
                  /\ SubSeq(history', 1, Len(history)) = history
                  /\ history'[Len(history')].pqrs_id = p.id
                  /\ history'[Len(history')].old_status_id = IntV(p.status_id)
                  /\ history'[Len(history')].new_status_id = IntV(res'.new_status_id)
                  /\ history'[Len(history')].changed_by = res'.who.n
                  /\ pqrs' = (pqrs \ {p}) \cup {[p EXCEPT !.status_id = res'.new_status_id]}
             ELSE /\ res'.out.kind = "raise"
                  /\ res'.out.status_code = 404
                  /\ history' = history
                  /\ pqrs' = pqrs

\* C21: every successful change_status appends exactly one history record (old_status_id
\* the previous status, new_status_id the requested one, changed_by the caller) and sets
\* the status of the PQRS; after every completed create_pqrs or change_status the status
\* of the PQRS is the new_status_id of its most recent status record; a change_status that
\* names a PQRS or a status that is not stored fails with 404 and records nothing.
C21_StatusHistory == []C21_State /\ [][C21_Step]_vars

\* the status of a PQRS is changed a second time, by another user than the one who filed it
C21_Witness ==
    /\ res.op = "pqrs"
    /\ res.endpoint = "change_status"
    /\ res.out.kind = "return"
    /\ history[Len(history)].old_status_id = IntV(2)
    /\ history[Len(history)].changed_by # res.out.value.user_id

-----------------------------------------------------------------------------
(* Radicado numbers.                                                       *)

\* no two of the rows have the same radicado_number
UniqueRadicado(ps) == \A p, q \in ps : p.radicado_number = q.radicado_number => p = q

\* the code a create_pqrs stores is the radicado_number of no PQRS stored before
C22_Step ==
    (res'.op = "pqrs" /\ res'.endpoint = "create_pqrs" /\ res'.out.kind = "return")
        => res'.out.value.radicado_number \notin {p.radicado_number : p \in pqrs}

\* C22: after any sequence of create_pqrs and delete_pqrs no two stored PQRS have the same
\* radicado_number: the code _generate_unique_code produces differs from every stored one.
C22_UniqueRadicado == []UniqueRadicado(pqrs) /\ [][C22_Step]_vars

-----------------------------------------------------------------------------
(* Hash and verify.                                                        *)

\* C23: for all plaintext passwords p, verify_password(p, hash_password(p)) is true, and
\* for all p1 different from p2, verify_password(p1, hash_password(p2)) is false.
C23_VerifyIffSame ==
    res.op = "verify_password"
        => res.out = Ret(res.plain_password = res.password)

\* C24: verify_password returns False, and raises nothing, when the hash string is not a
\* hash the hasher produced (so that login and change_password of a user with such a stored
\* hash fail with their wrong-password failure and not with an unhandled exception).
C24_MalformedHashIsFalse ==
    (res.op = "verify_stored" /\ res.hashed_password \in MalformedHashes)
        => res.out = Ret(FALSE)

-----------------------------------------------------------------------------
(* Password changes.                                                       *)

\* a change_password is refused and leaves every user row as it was
C30_Refused(status_code, detail) ==
    /\ Denied(res'.out, status_code, detail)
    /\ users' = users

\* a change_password call: refused with 404 for an unknown user, with 400 for a wrong current
\* password, with 400 and the policy's reason for a weak new password, each time writing
\* nothing; otherwise only that user's hash is replaced
C30_Outcome ==
    res'.op = "change_password"
        => LET i == res'.user_id
               valid == validate_password_strength(res'.new_password)
           IN  IF i \notin DOMAIN users THEN C30_Refused(404, <<"Usuario no encontrado">>)
               ELSE IF verify_password(res'.current_password, users[i].password_hash) # Ret(TRUE)
                 THEN C30_Refused(400, <<"Contraseña actual incorrecta">>)
               ELSE IF ~valid[1] THEN C30_Refused(400, <<valid[2].s>>)
               ELSE /\ res'.out = Ret(TRUE)
                    /\ DOMAIN users' = DOMAIN users
                    /\ \A j \in DOMAIN users :
                          users'[j] = [users[j] EXCEPT !.password_hash = users'[j].password_hash]
                    /\ \A j \in DOMAIN users \ {i} : users'[j] = users[j]
                    /\ verify_password(res'.new_password, users'[i].password_hash) = Ret(TRUE)

\* after a successful change the old password no longer verifies against the stored hash
C30_OldRefused ==
    (res'.op = "change_password" /\ res'.out.kind = "return")
        => verify_password(res'.current_password, users'[res'.user_id].password_hash) = Ret(FALSE)

\* C30: change_password replaces the stored hash only when the user exists, the current
\* password verifies and the new password passes the policy; on each failure (404 unknown
\* user, 400 wrong current password, 400 weak new password) the stored hash is unchanged;
\* after a successful change the new password verifies against the stored hash and the old
\* one no longer does.
C30_ChangePassword == [][C30_Outcome /\ C30_OldRefused]_vars

-----------------------------------------------------------------------------
(* What the authentication core writes.                                    *)

\* the operations of the core that only read
ReadOnlyOps ==
    {"verify_token", "get_current_user", "get_current_active_user", "RoleChecker",
     "PermissionChecker", "refresh"}

\* the user rows differ at most in one field of one row
OnlyLastLoginOf(i) ==
    /\ DOMAIN users' = DOMAIN users
    /\ \A j \in DOMAIN users \ {i} : users'[j] = users[j]
    /\ users'[i] = [users[i] EXCEPT !.last_login = users'[i].last_login]

OnlyPasswordHashOf(i) ==
    /\ DOMAIN users' = DOMAIN users
    /\ \A j \in DOMAIN users \ {i} : users'[j] = users[j]
    /\ users'[i] = [users[i] EXCEPT !.password_hash = users'[i].password_hash]

C25_Step ==
    /\ res'.op \in ReadOnlyOps => (users' = users /\ roles' = roles)
    /\ res'.op = "login"
         => /\ roles' = roles
            /\ IF res'.out.kind = "return" THEN OnlyLastLoginOf(res'.user.id) ELSE users' = users
    /\ res'.op \in {"change_password", "reset_password"}
         => /\ roles' = roles
            /\ IF res'.out.kind = "return" THEN OnlyPasswordHashOf(res'.user_id)
                                           ELSE users' = users

\* C25: the authentication core changes user records only by updating last_login on a
\* successful login and password_hash on a successful password change or reset; token
\* verification, get_current_user, get_current_active_user, RoleChecker, PermissionChecker,
\* refresh_access_token and every failed login leave all user, role and permission records
\* unchanged.
C25_CoreWrites == [][C25_Step]_vars

\* alice has logged in and the administrator's row is as it was, after a login that failed
C25_Witness ==
    /\ res.op = "login"
    /\ res.out.kind = "return"
    /\ res.user.id = 2
    /\ users[2].last_login = IntV(res.at)
    /\ users[1] = SeedUsers[1]

-----------------------------------------------------------------------------
(* Deactivated users.                                                      *)

\* a request to a protected endpoint by a user whose is_active is false is refused and
\* writes nothing
C26_Step ==
    (/\ res'.op \in {"pqrs", "change_password_request"}
     /\ res'.who.n \in DOMAIN users
     /\ ~users[res'.who.n].is_active)
        => /\ res'.out.kind = "raise"
           /\ users' = users
           /\ pqrs' = pqrs
           /\ history' = history

-----------------------------------------------------------------------------
(* Register calls that interleave.                                         *)

\* the two calls have ended and asked for the same username or the same email
SameIdentityAsked ==
    /\ \A c \in RegisterCalls : calls[c].pc = "done"
    /\ \/ calls[1].call.username = calls[2].call.username
       \/ calls[1].call.email = calls[2].call.email

\* C27: when two register calls for the same username (or the same email) run at the same
\* time and interleave at their store awaits, at most one of them creates a user and the
\* other fails, so the store never holds two users with that username or email.
C27_OneRegisters ==
    /\ UniqueIdentities(users)
    /\ SameIdentityAsked => \E c \in RegisterCalls : calls[c].out.kind = "raise"

-----------------------------------------------------------------------------
\* C28: a login whose password is not that of a user the identifier names fails with 401
\* "Credenciales incorrectas", the same whether the identifier names nobody, an active
\* user or a deactivated one; 403 is answered only when the password is that of a
\* deactivated user the identifier names.
C28_SameFailure ==
    res.op = "login" =>
        /\ (\A i \in Identified(res.username) : ~PasswordOf(i, res.password))
              => res.out = HTTPException(401, <<"Credenciales incorrectas">>)
        /\ (res.out.kind = "raise" /\ res.out.exc = "HTTPException"
                /\ res.out.status_code = 403)
              => \E i \in Identified(res.username) :
                     PasswordOf(i, res.password) /\ ~users[i].is_active

\* a deactivated user's identifier with a wrong password has been refused with 401
C28_Witness ==
    /\ res.op = "login"
    /\ \E i \in Identified(res.username) :
          ~users[i].is_active /\ ~PasswordOf(i, res.password)
    /\ res.out = HTTPException(401, <<"Credenciales incorrectas">>)

-----------------------------------------------------------------------------
\* the expiry an issuing function sets: the call's time plus expires_delta, or plus the
\* configured lifetime when expires_delta is None or zero
C29_Expire(lifetime) ==
    IF res.expires_delta = NoneV \/ res.expires_delta.minutes = 0
      THEN res.at + lifetime
      ELSE res.at + res.expires_delta.minutes

\* the times the clock takes, at any of which an issued token may be verified
C29_Times == 0..MaxTicks

\* C29: the type and exp claims of an issued token are those the issuing function sets,
\* whatever type or exp the caller's claims hold: a token of create_access_token has type
\* access and never verifies as refresh, a token of create_refresh_token has type refresh
\* and never verifies as access.
C29_IssuerSetsTypeAndExp ==
    /\ res.op = "create_access_token" =>
          /\ res.out.value.payload["type"] = StrV("access")
          /\ res.out.value.payload["exp"] = IntV(C29_Expire(ACCESS_TOKEN_EXPIRE_MINUTES))
          /\ \A t \in C29_Times : verify_token(res.out.value, "refresh", t) = Ret(NoneV)
    /\ res.op = "create_refresh_token" =>
          /\ res.out.value.payload["type"] = StrV("refresh")
          /\ res.out.value.payload["exp"] =
                 IntV(C29_Expire(REFRESH_TOKEN_EXPIRE_DAYS * 24 * 60))
          /\ \A t \in C29_Times : verify_token(res.out.value, "access", t) = Ret(NoneV)

\* an access token has been issued from claims that hold type = refresh and an exp
C29_Witness ==
    /\ res.op = "create_access_token"
    /\ "type" \in DOMAIN res.data /\ res.data["type"] = StrV("refresh")
    /\ "exp" \in DOMAIN res.data
    /\ res.out.value.payload["type"] = StrV("access")
    /\ res.out.value.payload["exp"] # res.data["exp"]

====
